---------------------------- MODULE Spec2Model ----------------------------
(***************************************************************************)
(* A model of the NANDA adapter's message-dispatch and tool-orchestration  *)
(* engine: SimpleAgentBridge (agent_bridge.py), MCPRegistry                *)
(* (mcp_registry.py) and MCPClient (mcp_client.py).                        *)
(*                                                                         *)
(* Texts are TLA+ strings and the Python string operations the code uses   *)
(* (startswith, in, strip, split, slicing, lower, title) are operators     *)
(* that compute what Python computes.  The module is ASCII: the two emoji  *)
(* the code puts in its replies are written "(x)" (the cross mark that     *)
(* starts an error text) and "(tool)" (the wrench that starts the header   *)
(* of a tool answer).  Python's None is the value None below, whose        *)
(* f-string rendering is the text "None".                                  *)
(***************************************************************************)
EXTENDS Integers, Sequences, FiniteSets, TLC

VARIABLES
    bridge,     \* the SimpleAgentBridge object's fields (set by __init__)
    environ,    \* the process environment: the value of SMITHERY_API_KEY
    pc,         \* where the transport is: "idle", "handling", "replied"
    msg,        \* the inbound Message being handled: its text and conversation
    world,      \* how the collaborators behave while that message is handled
    out,        \* what the last handle_message call did and returned
    handled,    \* how many messages this bridge has answered
    mcp,        \* the MCPClient of the tool query in flight (execute_query)
    fmt,        \* a value given to _parse_result and the texts it returned
    threads,    \* the concurrent calls of _run_mcp_query_sync and their workers
    registry,   \* the mock tool registry: its collection and the last request
    net         \* two bridges and the handle_message calls in progress between them

vars ==
    <<bridge, environ, pc, msg, world, out, handled, mcp, fmt, threads, registry, net>>

None == "None"

---------------------------------------------------------------------------
(* Python str operations                                                   *)

Truthy(v) == v # None /\ v # ""

\* s[n:]
SliceFrom(s, n) == IF n >= Len(s) THEN "" ELSE SubSeq(s, n + 1, Len(s))

\* s[:n]
SliceTo(s, n) == IF n >= Len(s) THEN s ELSE SubSeq(s, 1, n)

\* s.startswith(p)
StartsWith(s, p) == Len(s) >= Len(p) /\ SubSeq(s, 1, Len(p)) = p

\* s.endswith(p)
EndsWith(s, p) == Len(s) >= Len(p) /\ SubSeq(s, Len(s) - Len(p) + 1, Len(s)) = p

\* p in s
Contains(s, p) ==
    \E i \in 1..(Len(s) - Len(p) + 1) : SubSeq(s, i, i + Len(p) - 1) = p

\* s.find(c) + 1 for a one-character c: the 1-based place of the first c, 0 if none
FindChar(s, c) ==
    IF \E i \in 1..Len(s) : SubSeq(s, i, i) = c
    THEN CHOOSE i \in 1..Len(s) :
            /\ SubSeq(s, i, i) = c
            /\ \A j \in 1..(i - 1) : SubSeq(s, j, j) # c
    ELSE 0

\* the characters str.strip() removes
IsSpace(c) == c \in {" ", "\n", "\t", "\r"}

RECURSIVE LStrip(_)
LStrip(s) ==
    IF Len(s) > 0 /\ IsSpace(SubSeq(s, 1, 1)) THEN LStrip(SliceFrom(s, 1)) ELSE s

RECURSIVE RStrip(_)
RStrip(s) ==
    IF Len(s) > 0 /\ IsSpace(SubSeq(s, Len(s), Len(s)))
    THEN RStrip(SliceTo(s, Len(s) - 1))
    ELSE s

\* s.strip()
Strip(s) == RStrip(LStrip(s))

\* s.split(c) for a one-character c: always at least one piece
RECURSIVE Split(_, _)
Split(s, c) ==
    LET i == FindChar(s, c)
    IN  IF i = 0 THEN <<s>>
        ELSE <<SliceTo(s, i - 1)>> \o Split(SliceFrom(s, i), c)

\* s.split(c, 1): one piece when s holds no c, else the text before the first c
\* and everything after it
Split1(s, c) ==
    LET i == FindChar(s, c)
    IN  IF i = 0 THEN <<s>> ELSE <<SliceTo(s, i - 1), SliceFrom(s, i)>>

UpperCase == "ABCDEFGHIJKLMNOPQRSTUVWXYZ"
LowerCase == "abcdefghijklmnopqrstuvwxyz"

LowerChar(c) ==
    LET i == FindChar(UpperCase, c)
    IN  IF i = 0 THEN c ELSE SubSeq(LowerCase, i, i)

UpperChar(c) ==
    LET i == FindChar(LowerCase, c)
    IN  IF i = 0 THEN c ELSE SubSeq(UpperCase, i, i)

IsLetter(c) == FindChar(UpperCase, c) # 0 \/ FindChar(LowerCase, c) # 0

\* s.lower()
RECURSIVE Lower(_)
Lower(s) ==
    IF s = "" THEN "" ELSE LowerChar(SubSeq(s, 1, 1)) \o Lower(SliceFrom(s, 1))

\* s.title(): a letter that follows a non-letter is upper-cased, every other
\* letter lower-cased
RECURSIVE TitleFrom(_, _)
TitleFrom(s, afterLetter) ==
    IF s = "" THEN ""
    ELSE LET c == SubSeq(s, 1, 1)
         IN  (IF afterLetter THEN LowerChar(c) ELSE UpperChar(c))
                \o TitleFrom(SliceFrom(s, 1), IsLetter(c))

Title(s) == TitleFrom(s, FALSE)

\* sep.join(parts)
RECURSIVE Join(_, _)
Join(parts, sep) ==
    IF Len(parts) = 0 THEN ""
    ELSE IF Len(parts) = 1 THEN parts[1]
    ELSE parts[1] \o sep \o Join(Tail(parts), sep)

---------------------------------------------------------------------------
(* Calls and their outcomes                                                *)
(*                                                                         *)
(* A Python call either returns a value or raises; what it did to the      *)
(* outside world on the way is the log it hands on: the agent-logic calls, *)
(* the HTTP requests, the envelopes delivered and the tool queries run.    *)

Log0 == [logic |-> <<>>, http |-> <<>>, sent |-> <<>>, queries |-> <<>>]

Ret(v, lg) == [raised |-> FALSE, val |-> v, log |-> lg]

\* raise Exception(e): val is str(e)
Raise(e, lg) == [raised |-> TRUE, val |-> e, log |-> lg]

---------------------------------------------------------------------------
(* SimpleAgentBridge (agent_bridge.py)                                     *)

\* the reply marker of line 124
ReplyMarker == "Response to "

\* __init__: the fields of a new bridge; telemetry is None (the adapter's
\* telemetry module is not part of the repository, its import fails)
NewBridge(agent_id, registry_url, mcp_registry_url, smithery_api_key, env_key) ==
    [agent_id |-> agent_id,
     registry_url |-> registry_url,
     mcp_registry_url |-> mcp_registry_url,
     smithery_api_key |->
        IF Truthy(smithery_api_key) THEN smithery_api_key ELSE env_key]

CreateResponseUntagged(b, conversation_id, text) ==
    [role |-> "agent", text |-> text, conversation_id |-> conversation_id]

\* _create_response: the reply Message, its text tagged with the bridge's own id
_create_response(b, conversation_id, text) ==
    [role |-> "agent",
     text |-> "[" \o b.agent_id \o "] " \o text,
     conversation_id |-> conversation_id]

\* self.agent_logic(text, conversation_id): the callback the bridge was built
\* with; e.logic says what it does (returns e.logic.value, or raises it)
agent_logic(e, text, conversation_id, lg) ==
    LET lg2 == [lg EXCEPT !.logic = Append(@, <<text, conversation_id>>)]
    IN  IF e.logic.raises THEN Raise(e.logic.value, lg2)
        ELSE Ret(e.logic.value, lg2)

\* the loop of lines 113-119 over the lines of the text: each labelled line
\* sets its field, a later line of the same label replaces an earlier one
RECURSIVE ParseLines(_, _)
ParseLines(lines, acc) ==
    IF Len(lines) = 0 THEN acc
    ELSE LET line == Head(lines)
             nxt == IF StartsWith(line, "FROM:")
                        THEN [acc EXCEPT !.from_agent = Strip(SliceFrom(line, 5))]
                    ELSE IF StartsWith(line, "TO:")
                        THEN [acc EXCEPT !.to_agent = Strip(SliceFrom(line, 3))]
                    ELSE IF StartsWith(line, "MESSAGE:")
                        THEN [acc EXCEPT !.message_content = Strip(SliceFrom(line, 8))]
                    ELSE acc
         IN  ParseLines(Tail(lines), nxt)

ParseEnvelope(user_text) ==
    ParseLines(Split(Strip(user_text), "\n"),
               [from_agent |-> "", to_agent |-> "", message_content |-> ""])

\* line 124: is the parsed body a reply?
IsReplyNever(message_content) == FALSE

IsReply(message_content) == StartsWith(message_content, ReplyMarker)

\* line 129: the text of a reply shown to the user
ReplyDisplay(b, p) ==
    "[" \o p.from_agent \o "] "
        \o SliceFrom(p.message_content, Len(ReplyMarker \o b.agent_id \o ": "))

LogicReplyUnmarked(b, from_agent, conversation_id, r) ==
    IF r.raised THEN r ELSE Ret(_create_response(b, conversation_id, r.val), r.log)

\* lines 139-142: the reply that carries the callback's result r back to the sender
LogicReply(b, from_agent, conversation_id, r) ==
    IF r.raised THEN r
    ELSE Ret(_create_response(b, conversation_id,
                ReplyMarker \o from_agent \o ": " \o r.val), r.log)

\* the callback's result sent to the sender as an envelope of its own
IncomingParsedSendsBack(b, e, p, conversation_id, lg) ==
    LogicReply(b, p.from_agent, conversation_id,
        agent_logic(e, p.message_content, conversation_id,
            [lg EXCEPT !.sent = Append(@,
                [url |-> "http://" \o p.from_agent \o "/a2a",
                 text |-> "FROM: " \o b.agent_id \o "\nTO: " \o p.from_agent
                            \o "\nMESSAGE: " \o p.message_content,
                 conversation_id |-> conversation_id])]))

\* lines 121-142, p being the fields parsed from the text
IncomingParsed(b, e, p, conversation_id, lg) ==
    IF IsReply(p.message_content)
    THEN Ret(_create_response(b, conversation_id, ReplyDisplay(b, p)), lg)
    ELSE LogicReply(b, p.from_agent, conversation_id,
                    agent_logic(e, p.message_content, conversation_id, lg))

\* the try block of _handle_incoming_agent_message (lines 108-142)
IncomingBody(b, e, user_text, conversation_id, lg) ==
    IncomingParsed(b, e, ParseEnvelope(user_text), conversation_id, lg)

IncomingUnguarded(b, e, user_text, conversation_id, lg) ==
    IncomingBody(b, e, user_text, conversation_id, lg)

\* lines 144-149: the except clause of _handle_incoming_agent_message, r being
\* what its try block came to
IncomingExcept(b, conversation_id, r) ==
    IF r.raised
    THEN Ret(_create_response(b, conversation_id,
                "Error processing message from agent: " \o r.val), r.log)
    ELSE r

\* _handle_incoming_agent_message: the try block and its except clause
_handle_incoming_agent_message(b, e, user_text, conversation_id, lg) ==
    IncomingExcept(b, conversation_id,
                   IncomingBody(b, e, user_text, conversation_id, lg))

\* the static table of lines 395-397
local_agents == [test_agent |-> "http://localhost:6000"]

InLocalAgents(agent_id) == agent_id = "test_agent"

\* _lookup_agent: the registry's answer e.lookup is one of
\*   [kind |-> "200", agent_url |-> a URL or None (no such member)],
\*   [kind |-> "status"] (a non-200 answer), [kind |-> "neterr"] (requests raises),
\*   [kind |-> "badjson"] (200 whose body is not JSON: response.json() raises)
LookupWithoutLocalTable(b, e, agent_id, lg) ==
    IF Truthy(b.registry_url)
    THEN Ret(IF e.lookup.kind = "200" THEN e.lookup.agent_url ELSE None,
             [lg EXCEPT !.http = Append(@, b.registry_url \o "/lookup/" \o agent_id)])
    ELSE Ret(None, lg)

LookupDefaultsToLocal(b, e, agent_id, lg) ==
    IF Truthy(b.registry_url) /\ e.lookup.kind = "200"
    THEN Ret(e.lookup.agent_url,
             [lg EXCEPT !.http = Append(@, b.registry_url \o "/lookup/" \o agent_id)])
    ELSE Ret("http://localhost:6000",
             IF Truthy(b.registry_url)
             THEN [lg EXCEPT !.http = Append(@, b.registry_url \o "/lookup/" \o agent_id)]
             ELSE lg)

_lookup_agent(b, e, agent_id, lg) ==
    LET asked == Truthy(b.registry_url)
        lg2 == IF asked
               THEN [lg EXCEPT !.http =
                        Append(@, b.registry_url \o "/lookup/" \o agent_id)]
               ELSE lg
    IN  IF asked /\ e.lookup.kind = "200"
        THEN Ret(e.lookup.agent_url, lg2)
        ELSE IF InLocalAgents(agent_id) THEN Ret(local_agents.test_agent, lg2)
        ELSE Ret(None, lg2)

\* line 342: the envelope text
SimpleMessage(from_id, to_id, message_text) ==
    "FROM: " \o from_id \o "\nTO: " \o to_id \o "\nMESSAGE: " \o message_text

DeliveredUntagged(e, target_agent_id, message_text, lg2) ==
    CASE e.delivery.kind = "raise" -> Raise(e.delivery.text, lg2)
      [] e.delivery.kind \in {"parts", "noparts"} -> Ret(e.delivery.text, lg2)
      [] OTHER ->
            Ret("Message sent to " \o target_agent_id \o ": " \o message_text, lg2)

\* the try block of _send_to_agent (lines 331-374); the peer's answer
\* e.delivery is one of [kind |-> "parts", text |-> t] (a response with parts),
\* [kind |-> "noparts", text |-> str(response)], [kind |-> "none"] (a falsy
\* response), [kind |-> "raise", text |-> str(e)] (send_message raises)
\* lines 358-374: what the peer's answer comes to, lg2 being the log once the
\* envelope is sent
Delivered(e, target_agent_id, message_text, lg2) ==
    CASE e.delivery.kind = "raise" -> Raise(e.delivery.text, lg2)
      [] e.delivery.kind = "parts" ->
            Ret("[" \o target_agent_id \o "] " \o e.delivery.text, lg2)
      [] e.delivery.kind = "noparts" ->
            Ret("[" \o target_agent_id \o "] " \o e.delivery.text, lg2)
      [] OTHER ->
            Ret("Message sent to " \o target_agent_id \o ": " \o message_text, lg2)

\* lines 336-337: the peer's endpoint
A2AUrl(agent_url) == IF EndsWith(agent_url, "/a2a") THEN agent_url ELSE agent_url \o "/a2a"

\* lines 332-374, l being what _lookup_agent returned (line 331)
SendResolved(b, e, target_agent_id, message_text, conversation_id, l) ==
    IF ~Truthy(l.val)
    THEN Ret("Agent " \o target_agent_id \o " not found", l.log)
    ELSE Delivered(e, target_agent_id, message_text,
            [l.log EXCEPT !.sent = Append(@,
                [url |-> A2AUrl(l.val),
                 text |-> SimpleMessage(b.agent_id, target_agent_id, message_text),
                 conversation_id |-> conversation_id])])

SendBody(b, e, target_agent_id, message_text, conversation_id, lg) ==
    SendResolved(b, e, target_agent_id, message_text, conversation_id,
                 _lookup_agent(b, e, target_agent_id, lg))

\* lines 376-377: the except clause of _send_to_agent, r being what its try
\* block came to
SendExcept(target_agent_id, r) ==
    IF r.raised
    THEN Ret("(x) Error sending to " \o target_agent_id \o ": " \o r.val, r.log)
    ELSE r

\* _send_to_agent: the try block and its except clause (line 376)
_send_to_agent(b, e, target_agent_id, message_text, conversation_id, lg) ==
    SendExcept(target_agent_id,
               SendBody(b, e, target_agent_id, message_text, conversation_id, lg))

\* a handler's `return self._create_response(msg, conversation_id, result)`, r
\* being what computing result came to
Respond(b, conversation_id, r) ==
    IF r.raised THEN r ELSE Ret(_create_response(b, conversation_id, r.val), r.log)

\* lines 154-167 of _handle_agent_message, parts being user_text.split(" ", 1)
AgentMessageParts(b, e, parts, conversation_id, lg) ==
    IF Len(parts) <= 1
    THEN Ret(_create_response(b, conversation_id,
                "Invalid format. Use '@agent_id message'"), lg)
    ELSE Respond(b, conversation_id,
            _send_to_agent(b, e, SliceFrom(parts[1], 1), parts[2],
                           conversation_id, lg))

HandleAgentMessageSplitsAll(b, e, user_text, conversation_id, lg) ==
    AgentMessageParts(b, e, Split(user_text, " "), conversation_id, lg)

\* _handle_agent_message
_handle_agent_message(b, e, user_text, conversation_id, lg) ==
    AgentMessageParts(b, e, Split1(user_text, " "), conversation_id, lg)

help_text ==
    "Available commands:\n/help - Show this help\n"
    \o "/ping - Test agent responsiveness  \n/status - Show agent status\n"
    \o "@agent_id message - Send message to another agent\n"
    \o "#nanda:server-name query - Query NANDA MCP server\n"
    \o "#smithery:server-name query - Query Smithery MCP server"

\* lines 189-193: the status text
StatusText(b) ==
    "Agent: " \o b.agent_id \o ", Status: Running"
    \o (IF Truthy(b.registry_url) THEN ", Registry: " \o b.registry_url ELSE "")
    \o (IF Truthy(b.mcp_registry_url)
        THEN ", MCP Registry: " \o b.mcp_registry_url ELSE "")

CommandTextAnyCase(b, command) ==
    CASE Lower(command) = "help" -> help_text
      [] Lower(command) = "ping" -> "Pong!"
      [] Lower(command) = "status" -> StatusText(b)
      [] OTHER -> "Unknown command: " \o command
                    \o ". Use /help for available commands"

\* lines 175-200: the text answered to a command
CommandText(b, command) ==
    CASE command = "help" -> help_text
      [] command = "ping" -> "Pong!"
      [] command = "status" -> StatusText(b)
      [] OTHER -> "Unknown command: " \o command
                    \o ". Use /help for available commands"

\* _handle_command
_handle_command(b, user_text, conversation_id, lg) ==
    Ret(_create_response(b, conversation_id,
            CommandText(b, SliceFrom(Split1(user_text, " ")[1], 1))), lg)

---------------------------------------------------------------------------
(* Python values and json.loads                                            *)
(*                                                                         *)
(* A value is a record of one shape: t is its type ("str", "int", "bool",  *)
(* "null", "list", "dict", or "obj" for an object of a library class, of   *)
(* which only str() is used), s its text, n its number, items its members  *)
(* (values for a list, [k, v] pairs in insertion order for a dict).        *)

PyStr(x) == [t |-> "str", s |-> x, n |-> 0, items |-> <<>>]
PyInt(i) == [t |-> "int", s |-> "", n |-> i, items |-> <<>>]
PyBool(b) == [t |-> "bool", s |-> "", n |-> IF b THEN 1 ELSE 0, items |-> <<>>]
PyNone == [t |-> "null", s |-> "", n |-> 0, items |-> <<>>]
PyList(xs) == [t |-> "list", s |-> "", n |-> 0, items |-> xs]
PyDict(kvs) == [t |-> "dict", s |-> "", n |-> 0, items |-> kvs]
PyObj(x) == [t |-> "obj", s |-> x, n |-> 0, items |-> <<>>]

\* d[k] = v: a key already present keeps its place
DictSet(kvs, k, v) ==
    IF \E i \in 1..Len(kvs) : kvs[i].k = k
    THEN [i \in 1..Len(kvs) |-> IF kvs[i].k = k THEN [k |-> k, v |-> v] ELSE kvs[i]]
    ELSE Append(kvs, [k |-> k, v |-> v])

DictHas(d, k) == \E i \in 1..Len(d.items) : d.items[i].k = k

\* d.get(k, default)
DictGet(d, k, default) ==
    IF DictHas(d, k)
    THEN d.items[CHOOSE i \in 1..Len(d.items) : d.items[i].k = k].v
    ELSE default

CharAt(s, i) == IF i >= 1 /\ i <= Len(s) THEN SubSeq(s, i, i) ELSE ""

IsDigit(c) == c # "" /\ FindChar("0123456789", c) # 0

DigitVal(c) == FindChar("0123456789", c) - 1

\* the first place at or after i that holds no JSON whitespace
RECURSIVE SkipWs(_, _)
SkipWs(s, i) == IF IsSpace(CharAt(s, i)) THEN SkipWs(s, i + 1) ELSE i

NoParse == [ok |-> FALSE, val |-> PyNone, next |-> 0]

Parsed(v, i) == [ok |-> TRUE, val |-> v, next |-> i]

\* a JSON string starting at the quote at i; the model's texts hold no
\* backslash, and a raw control character ends the parse as in Python
RECURSIVE ScanString(_, _, _)
ScanString(s, i, acc) ==
    LET c == CharAt(s, i)
    IN  IF c = "" \/ c = "\n" \/ c = "\t" \/ c = "\r" \/ c = "\\" THEN NoParse
        ELSE IF c = "\"" THEN Parsed(PyStr(acc), i + 1)
        ELSE ScanString(s, i + 1, acc \o c)

\* the digits of an integer from i on; the model's texts hold no fraction or exponent
RECURSIVE ScanDigits(_, _, _)
ScanDigits(s, i, acc) ==
    IF IsDigit(CharAt(s, i))
    THEN ScanDigits(s, i + 1, 10 * acc + DigitVal(CharAt(s, i)))
    ELSE Parsed(PyInt(acc), i)

ScanNumber(s, i) ==
    LET neg == CharAt(s, i) = "-"
        j == IF neg THEN i + 1 ELSE i
        d == ScanDigits(s, j, 0)
        after == CharAt(s, d.next)
    IN  IF ~IsDigit(CharAt(s, j)) THEN NoParse
        ELSE IF CharAt(s, j) = "0" /\ d.next > j + 1 THEN NoParse
        ELSE IF after \in {".", "e", "E"} THEN NoParse
        ELSE Parsed(PyInt(IF neg THEN 0 - d.val.n ELSE d.val.n), d.next)

RECURSIVE ParseValue(_, _)
RECURSIVE ParseElements(_, _, _)
RECURSIVE ParseMembers(_, _, _)

\* the JSON value that starts at i (after whitespace)
ParseValue(s, i0) ==
    LET i == SkipWs(s, i0)
        c == CharAt(s, i)
    IN  CASE c = "{" ->
                IF CharAt(s, SkipWs(s, i + 1)) = "}"
                THEN Parsed(PyDict(<<>>), SkipWs(s, i + 1) + 1)
                ELSE ParseMembers(s, i + 1, <<>>)
          [] c = "[" ->
                IF CharAt(s, SkipWs(s, i + 1)) = "]"
                THEN Parsed(PyList(<<>>), SkipWs(s, i + 1) + 1)
                ELSE ParseElements(s, i + 1, <<>>)
          [] c = "\"" -> ScanString(s, i + 1, "")
          [] c = "-" \/ IsDigit(c) -> ScanNumber(s, i)
          [] StartsWith(SliceFrom(s, i - 1), "true") -> Parsed(PyBool(TRUE), i + 4)
          [] StartsWith(SliceFrom(s, i - 1), "false") -> Parsed(PyBool(FALSE), i + 5)
          [] StartsWith(SliceFrom(s, i - 1), "null") -> Parsed(PyNone, i + 4)
          [] OTHER -> NoParse

\* the elements of an array, from the one at i to the closing bracket
ParseElements(s, i, acc) ==
    LET v == ParseValue(s, i)
        j == SkipWs(s, v.next)
    IN  IF ~v.ok THEN NoParse
        ELSE IF CharAt(s, j) = "," THEN ParseElements(s, j + 1, Append(acc, v.val))
        ELSE IF CharAt(s, j) = "]" THEN Parsed(PyList(Append(acc, v.val)), j + 1)
        ELSE NoParse

\* the members of an object, from the key at i to the closing brace
ParseMembers(s, i, acc) ==
    LET q == SkipWs(s, i)
        k == IF CharAt(s, q) = "\"" THEN ScanString(s, q + 1, "") ELSE NoParse
        c == SkipWs(s, k.next)
        v == IF k.ok /\ CharAt(s, c) = ":" THEN ParseValue(s, c + 1) ELSE NoParse
        j == SkipWs(s, v.next)
    IN  IF ~v.ok THEN NoParse
        ELSE IF CharAt(s, j) = ","
            THEN ParseMembers(s, j + 1, DictSet(acc, k.val.s, v.val))
        ELSE IF CharAt(s, j) = "}"
            THEN Parsed(PyDict(DictSet(acc, k.val.s, v.val)), j + 1)
        ELSE NoParse

\* json.loads(s): ok is FALSE where Python raises json.JSONDecodeError
json_loads(s) ==
    LET v == ParseValue(s, 1)
    IN  IF v.ok /\ SkipWs(s, v.next) > Len(s) THEN v ELSE NoParse

\* str(x) and repr(x) of a value, as an f-string renders it
RECURSIVE str(_)
RECURSIVE repr(_)
RECURSIVE ReprItems(_)
RECURSIVE ReprPairs(_)

str(x) ==
    CASE x.t = "str" -> x.s
      [] x.t = "obj" -> x.s
      [] x.t = "int" -> ToString(x.n)
      [] x.t = "bool" -> IF x.n = 1 THEN "True" ELSE "False"
      [] x.t = "null" -> "None"
      [] x.t = "list" -> "[" \o Join(ReprItems(x.items), ", ") \o "]"
      [] x.t = "dict" -> "{" \o Join(ReprPairs(x.items), ", ") \o "}"

repr(x) == IF x.t = "str" THEN "'" \o x.s \o "'" ELSE str(x)

ReprItems(xs) ==
    IF Len(xs) = 0 THEN <<>> ELSE <<repr(Head(xs))>> \o ReprItems(Tail(xs))

ReprPairs(kvs) ==
    IF Len(kvs) = 0 THEN <<>>
    ELSE <<"'" \o Head(kvs).k \o "': " \o repr(Head(kvs).v)>> \o ReprPairs(Tail(kvs))

---------------------------------------------------------------------------
(* MCPClient: the response formatter (mcp_client.py, lines 164-266)        *)
(*                                                                         *)
(* The glyphs of the rendering are written in ASCII: "(=)" the clipboard   *)
(* that heads a block, "(-)" the diamond that heads a scalar line, "*" the *)
(* bullet.                                                                 *)

\* line 212: value[:5]
NestedItemCap == 5

\* line 229: data[:10]
TopItemCap == 10

\* s.replace(a, b) for one-character a and b
RECURSIVE ReplaceChar(_, _, _)
ReplaceChar(s, a, b) ==
    IF s = "" THEN ""
    ELSE (IF SubSeq(s, 1, 1) = a THEN b ELSE SubSeq(s, 1, 1))
            \o ReplaceChar(SliceFrom(s, 1), a, b)

\* key.replace('_', ' ').title()
Humanize(key) == Title(ReplaceChar(key, "_", " "))

\* "<indent>* <Key>: <value>" for each pair of a mapping
RECURSIVE BulletLines(_, _)
BulletLines(kvs, indent) ==
    IF Len(kvs) = 0 THEN <<>>
    ELSE <<indent \o "* " \o Humanize(Head(kvs).k) \o ": " \o str(Head(kvs).v)>>
            \o BulletLines(Tail(kvs), indent)

\* lines 212-218: the items of a list that is a mapping's value, from number i
RECURSIVE NestedItemLines(_, _)
NestedItemLines(xs, i) ==
    IF Len(xs) = 0 THEN <<>>
    ELSE (IF Head(xs).t = "dict"
          THEN <<"  [" \o ToString(i) \o "]">> \o BulletLines(Head(xs).items, "    ")
          ELSE <<"  * " \o str(Head(xs))>>)
            \o NestedItemLines(Tail(xs), i + 1)

\* lines 203-223: the lines of a mapping
RECURSIVE DictLines(_)
DictLines(kvs) ==
    IF Len(kvs) = 0 THEN <<>>
    ELSE LET key == Head(kvs).k
             value == Head(kvs).v
             these ==
                CASE value.t = "dict" ->
                        <<"(=) " \o Humanize(key) \o ":">>
                            \o BulletLines(value.items, "  ")
                  [] value.t = "list" ->
                        <<"(=) " \o Humanize(key) \o ":">>
                            \o NestedItemLines(
                                SubSeq(value.items, 1,
                                    IF Len(value.items) < NestedItemCap
                                    THEN Len(value.items) ELSE NestedItemCap), 1)
                            \o (IF Len(value.items) > NestedItemCap
                                THEN <<"  ... and "
                                        \o ToString(Len(value.items) - NestedItemCap)
                                        \o " more items">>
                                ELSE <<>>)
                  [] OTHER -> <<"(-) " \o Humanize(key) \o ": " \o str(value)>>
         IN  these \o DictLines(Tail(kvs))

\* lines 229-235: the items of a top-level list, from number i
RECURSIVE TopItemLines(_, _)
TopItemLines(xs, i) ==
    IF Len(xs) = 0 THEN <<>>
    ELSE (IF Head(xs).t = "dict"
          THEN <<"(=) Item " \o ToString(i) \o ":">>
                    \o BulletLines(Head(xs).items, "  ")
          ELSE <<"(-) Item " \o ToString(i) \o ": " \o str(Head(xs))>>)
            \o TopItemLines(Tail(xs), i + 1)

\* the rendering with every item of a top-level sequence shown and no note
FormatDataUncapped(data) ==
    CASE data.t = "dict" -> Join(DictLines(data.items), "\n")
      [] data.t = "list" -> Join(TopItemLines(data.items, 1), "\n")
      [] OTHER -> str(data)

\* lines 201-243: the rendering of a value that is not a JSON text
FormatData(data) ==
    CASE data.t = "dict" -> Join(DictLines(data.items), "\n")
      [] data.t = "list" ->
            Join(TopItemLines(
                    SubSeq(data.items, 1,
                        IF Len(data.items) < TopItemCap
                        THEN Len(data.items) ELSE TopItemCap), 1)
                 \o (IF Len(data.items) > TopItemCap
                     THEN <<"... and " \o ToString(Len(data.items) - TopItemCap)
                                \o " more items">>
                     ELSE <<>>),
                 "\n")
      [] OTHER -> str(data)

\* lines 195-199: a text is parsed first (j is what json.loads made of it),
\* and returned as it is where it is not JSON
FormatText(s, j) == IF j.ok THEN FormatData(j.val) ELSE s

\* _format_json_response: a text; nothing in its body raises on a value whose
\* keys are strings, so its except clause (line 245) is never entered
_format_json_response(data) ==
    IF data.t = "str" THEN FormatText(data.s, json_loads(data.s))
    ELSE FormatData(data)

\* the last place of c in s, 0 if none
LastChar(s, c) ==
    IF \E i \in 1..Len(s) : SubSeq(s, i, i) = c
    THEN CHOOSE i \in 1..Len(s) :
            /\ SubSeq(s, i, i) = c
            /\ \A j \in (i + 1)..Len(s) : SubSeq(s, j, j) # c
    ELSE 0

\* lines 256-263: the matched span is formatted where it is JSON (j is what
\* json.loads made of it), else the text is returned as it is
FormatMatch(text, j) == IF j.ok THEN _format_json_response(j.val) ELSE text

\* lines 253-255: json_match is the span from first to last, if there is one
SearchBraces(text, first, last) ==
    IF first # 0 /\ last > first
    THEN FormatMatch(text, json_loads(SubSeq(text, first, last)))
    ELSE text

ExtractTrimmed(text) == Strip(text)

\* _extract_and_format_json: re.search(r'\{.*\}', text, re.DOTALL) is the text
\* from the first "{" to the last "}" after it
_extract_and_format_json(text) ==
    SearchBraces(text, FindChar(text, "{"), LastChar(text, "}"))

\* the name Python gives a value's type in an error text
TypeName(x) ==
    CASE x.t = "null" -> "NoneType" [] x.t = "obj" -> "object" [] OTHER -> x.t

\* bool(x)
TruthyValue(x) ==
    CASE x.t \in {"str", "obj"} -> x.s # ""
      [] x.t \in {"int", "bool"} -> x.n # 0
      [] x.t = "null" -> FALSE
      [] OTHER -> Len(x.items) > 0

\* x.get(key, default): only a dict has it
GetMember(x, key, default) ==
    IF x.t = "dict" THEN [raised |-> FALSE, val |-> DictGet(x, key, default)]
    ELSE [raised |-> TRUE,
          val |-> PyStr("'" \o TypeName(x) \o "' object has no attribute 'get'")]

\* `x and len(x) > 0` followed by x[0]: raised where len(x) or x[0] raises,
\* val absent (PyNone, with some = FALSE) where the condition is false
FirstOf(x) ==
    IF ~TruthyValue(x) THEN [raised |-> FALSE, some |-> FALSE, val |-> PyNone]
    ELSE CASE x.t = "list" -> [raised |-> FALSE, some |-> TRUE, val |-> x.items[1]]
           [] x.t = "str" ->
                [raised |-> FALSE, some |-> TRUE, val |-> PyStr(SubSeq(x.s, 1, 1))]
           [] x.t = "dict" -> [raised |-> TRUE, some |-> FALSE, val |-> PyStr("0")]
           [] OTHER ->
                [raised |-> TRUE, some |-> FALSE,
                 val |-> PyStr("object of type '" \o TypeName(x) \o "' has no len()")]

\* what lines 171-177 come to: raised with the error's text, or some = TRUE
\* with the text content found, or neither (the branch falls through)
NoArtifact == [raised |-> FALSE, some |-> FALSE, val |-> PyNone]

ArtifactError(e) == [raised |-> TRUE, some |-> FALSE, val |-> e]

\* line 176: parts[0].get("text", "")
TextOfPart(text) ==
    IF text.raised THEN ArtifactError(text.val)
    ELSE [raised |-> FALSE, some |-> TRUE, val |-> text.val]

\* line 175: `parts and len(parts) > 0`, then parts[0]
FirstPart(p0) ==
    IF p0.raised THEN ArtifactError(p0.val)
    ELSE IF ~p0.some THEN NoArtifact
    ELSE TextOfPart(GetMember(p0.val, "text", PyStr("")))

\* line 174: artifacts[0].get("parts", [])
PartsOf(parts) ==
    IF parts.raised THEN ArtifactError(parts.val) ELSE FirstPart(FirstOf(parts.val))

\* line 173: `artifacts and len(artifacts) > 0`, then artifacts[0]
FirstArtifact(a0) ==
    IF a0.raised THEN ArtifactError(a0.val)
    ELSE IF ~a0.some THEN NoArtifact
    ELSE PartsOf(GetMember(a0.val, "parts", PyList(<<>>)))

\* line 172: response_json["result"].get("artifacts", [])
ArtifactsOf(artifacts) ==
    IF artifacts.raised THEN ArtifactError(artifacts.val)
    ELSE FirstArtifact(FirstOf(artifacts.val))

\* lines 171-177: the text of the first part of the first artifact of a
\* JSON-RPC answer; some = FALSE where the answer has none
ArtifactText(response_json) ==
    IF ~DictHas(response_json, "result") THEN NoArtifact
    ELSE ArtifactsOf(GetMember(DictGet(response_json, "result", PyNone),
                               "artifacts", PyList(<<>>)))

\* lines 171-180 for a JSON object d, a being its ArtifactText
ParseDict(d, a) ==
    IF a.raised THEN [raised |-> TRUE, val |-> a.val.s]
    ELSE [raised |-> FALSE,
          val |-> _format_json_response(IF a.some THEN a.val ELSE d)]

\* lines 167-184 and 190 for a text s, j being what json.loads made of it:
\* not JSON, a JSON object, or JSON of another kind (the text as it is)
ParseText(s, j) ==
    IF ~j.ok THEN [raised |-> FALSE, val |-> _extract_and_format_json(s)]
    ELSE IF j.val.t = "dict" THEN ParseDict(j.val, ArtifactText(j.val))
    ELSE [raised |-> FALSE, val |-> s]

\* _parse_result: the text of a value; raised where an exception other than
\* json.JSONDecodeError leaves the try block of lines 167-184
_parse_result(response) ==
    CASE response.t = "str" -> ParseText(response.s, json_loads(response.s))
      [] response.t = "dict" ->
            [raised |-> FALSE, val |-> _format_json_response(response)]
      [] OTHER -> [raised |-> FALSE, val |-> str(response)]

---------------------------------------------------------------------------
(* MCPClient: connect_to_server and execute_query (mcp_client.py, 23-162)  *)
(*                                                                         *)
(* q is one MCPClient running one execute_query call: its fields (session, *)
(* the contexts entered on exit_stack), the call's locals (messages, the   *)
(* model's current response `message`, the place `block` of the for loop   *)
(* in it, has_tool_calls), where the call is (pc) and what it returned.    *)
(* events lists the calls made to the model service and to the tool        *)
(* session, in order: a model event records how long the transcript was    *)
(* when the request was sent and the blocks the model answered with, a     *)
(* tool event the id of the invocation it ran.                             *)

TextBlock(t) == [type |-> "text", text |-> t, id |-> "", name |-> "", input |-> ""]

ToolUse(id, name, input) ==
    [type |-> "tool_use", text |-> "", id |-> id, name |-> name, input |-> input]

UserQuery(query) ==
    [role |-> "user", type |-> "text", id |-> "", name |-> "", content |-> query]

\* lines 123-131
AssistantToolUse(b) ==
    [role |-> "assistant", type |-> "tool_use", id |-> b.id, name |-> b.name,
     content |-> b.input]

\* lines 133-140
UserToolResult(b, processed_result) ==
    [role |-> "user", type |-> "tool_result", id |-> b.id, name |-> "",
     content |-> processed_result]

\* MCPClient.__init__ and the entry of execute_query
NewQuery(query, server_url) ==
    [pc |-> "connect", query |-> query, server_url |-> server_url,
     session |-> None, exit_stack |-> <<>>, tools |-> <<>>,
     messages |-> <<>>, message |-> <<>>, block |-> 0, has_tool_calls |-> FALSE,
     events |-> <<>>, result |-> None]

NoQuery == NewQuery("", "")

\* no value has been given to the formatter
NoFormat == [response |-> PyNone, results |-> <<>>]

\* the callers of _run_mcp_query_sync that may be in flight together
Callers == {1, 2}

\* a call of _run_mcp_query_sync(server_url, query) not yet started: where the
\* calling thread is (pc), where its worker thread is, the event loop and the
\* MCPClient object the worker made (0: none yet), the run of execute_query
\* (q), the sessions its tool calls were executed on, the closure's
\* result_container and what the call returned
NewCall(query) ==
    [pc |-> "call", worker |-> "none", query |-> query, loop |-> 0, client |-> 0,
     q |-> NoQuery, used |-> {}, result_container |-> <<>>, result |-> None]

\* no call is in flight.  session_of is the session each MCPClient object
\* holds in self.session (0: None), loops the number of event loops made
NoThreads ==
    [call |-> [i \in Callers |-> NewCall("")],
     session_of |-> [c \in Callers |-> 0],
     loops |-> 0]

\* the qualified names the mock tool registry is asked about
RegistryNames == {"nanda-points", "weather"}

NoRequest == [op |-> "", name |-> "", db |-> ""]

NoResponse == [status |-> 0, server_url |-> None, count |-> 0]

\* the mock tool registry before its first request: the documents of its
\* collection in the store's order, the request served last and its answer,
\* how many requests were served, and for each name the server_url of the last
\* registration the service acknowledged (None: never, or deleted since)
NoRegistry ==
    [collection |-> <<>>, latest |-> [n \in RegistryNames |-> None],
     request |-> NoRequest, response |-> NoResponse, served |-> 0]

\* no message is being handled by either bridge
NoNet ==
    [stage |-> "idle", text |-> "", lookup |-> "status",
     logic |-> [raises |-> FALSE, value |-> ""], reach |-> "ok",
     calls |-> <<>>, delivered |-> <<>>, invoked |-> <<>>, replies |-> <<>>]

ConnectFailed ==
    "(x) Failed to connect to MCP server. Check server URL and authentication."

Returned(q, text) == [q EXCEPT !.pc = "done", !.result = text]

\* line 162: the except clause of execute_query
McpError(q, e) == Returned(q, "(x) MCP error: " \o e)

\* __aexit__ (lines 271-296): the session is dropped and the exit stack
\* closed, which leaves every context entered on it.  It runs only when an
\* MCPClient is used in an `async with` block; _run_mcp_async (agent_bridge.py,
\* lines 320-322) calls execute_query on a bare MCPClient(), so that no query
\* of the bridge goes through it
__aexit__(q) == [q EXCEPT !.session = None, !.exit_stack = <<>>]

ConnectIgnoresFailure(q, c) ==
    [q EXCEPT !.exit_stack = IF c.kind = "transport" THEN <<>>
                             ELSE <<"transport", "session">>,
              !.session = IF c.kind = "transport" THEN None ELSE "open",
              !.pc = "first_request", !.tools = c.tools,
              !.messages = <<UserQuery(q.query)>>]

ConnectAcceptsEmptyCatalog(q, c) ==
    LET entered == IF c.kind = "transport" THEN <<>> ELSE <<"transport", "session">>
        q1 == [q EXCEPT !.exit_stack = entered,
                        !.session = IF c.kind = "transport" THEN None ELSE "open"]
    IN  IF c.kind # "ok"
        THEN Returned(q1, ConnectFailed)
        ELSE [q1 EXCEPT !.pc = "first_request", !.tools = c.tools,
                        !.messages = <<UserQuery(q.query)>>]

\* connect_to_server and lines 83-96.  The server's behaviour c is one of
\*   [kind |-> "transport"]  opening the transport raises (nothing entered)
\*   [kind |-> "handshake"]  session.initialize() raises
\*   [kind |-> "list"]       session.list_tools() raises
\*   [kind |-> "ok", tools |-> the names of the tools listed]  (<<>> when
\*                           the server lists no tool, or tools is None)
Connect(q, c) ==
    LET entered == IF c.kind = "transport" THEN <<>> ELSE <<"transport", "session">>
        q1 == [q EXCEPT !.exit_stack = entered,
                        !.session = IF c.kind = "transport" THEN None ELSE "open"]
    IN  IF c.kind # "ok" \/ c.tools = <<>>
        THEN Returned(q1, ConnectFailed)
        ELSE [q1 EXCEPT !.pc = "first_request", !.tools = c.tools,
                        !.messages = <<UserQuery(q.query)>>]

\* lines 99-104 and 145-150: self.anthropic.messages.create(...).  The model's
\* answer a is [kind |-> "content", content |-> blocks] or
\* [kind |-> "raise", text |-> str(e)]
CreateMessageKeepsFlag(q, a) ==
    LET q1 == [q EXCEPT !.events =
                    Append(@, [ev |-> "model", seen |-> Len(q.messages), id |-> "",
                               content |-> IF a.kind = "raise" THEN <<>> ELSE a.content,
                               failed |-> a.kind = "raise"])]
    IN  IF a.kind = "raise" THEN McpError(q1, a.text)
        ELSE [q1 EXCEPT !.pc = "blocks", !.message = a.content, !.block = 1]

CreateMessage(q, a) ==
    LET q1 == [q EXCEPT !.events =
                    Append(@, [ev |-> "model", seen |-> Len(q.messages), id |-> "",
                               content |-> IF a.kind = "raise" THEN <<>> ELSE a.content,
                               failed |-> a.kind = "raise"])]
    IN  IF a.kind = "raise" THEN McpError(q1, a.text)
        ELSE [q1 EXCEPT !.pc = "blocks", !.message = a.content, !.block = 1,
                        !.has_tool_calls = FALSE]

RECURSIVE FinalResponseUnjoined(_)
FinalResponseUnjoined(blocks) ==
    IF Len(blocks) = 0 THEN ""
    ELSE (IF Head(blocks).type = "text" THEN Head(blocks).text ELSE "")
            \o FinalResponseUnjoined(Tail(blocks))

RECURSIVE FinalResponse(_)
\* lines 152-155: the text blocks of the last response, each followed by a newline
FinalResponse(blocks) ==
    IF Len(blocks) = 0 THEN ""
    ELSE (IF Head(blocks).type = "text" THEN Head(blocks).text \o "\n" ELSE "")
            \o FinalResponse(Tail(blocks))

\* line 157: the text returned once a response asks for no tool
ReturnParsed(q, r) == IF r.raised THEN McpError(q, r.val) ELSE Returned(q, r.val)

ReturnFinal(q, final_response) ==
    IF final_response = "" THEN Returned(q, "No response generated")
    ELSE ReturnParsed(q, _parse_result(PyStr(Strip(final_response))))

FinalResult(q) == ReturnFinal(q, FinalResponse(q.message))

\* a tool call that raised is reported to the model as the tool's result
ToolTurnsGoesOn(q1, b, processed_result) ==
    [q1 EXCEPT !.has_tool_calls = TRUE, !.block = @ + 1,
               !.messages = @ \o <<AssistantToolUse(b),
                                   UserToolResult(b, processed_result.val)>>]

ToolTurnsResultFirst(q1, b, processed_result) ==
    IF processed_result.raised THEN McpError(q1, processed_result.val)
    ELSE [q1 EXCEPT !.has_tool_calls = TRUE, !.block = @ + 1,
                    !.messages = @ \o <<UserToolResult(b, processed_result.val),
                                        AssistantToolUse(b)>>]

\* one turn of `for block in message.content` (lines 111-140), and lines 142-143
\* after the last block.  The tool session's answer t to a call is
\* [kind |-> "result", text |-> str(result)] or [kind |-> "raise", text |-> str(e)]
\* lines 120-140: the two turns a tool invocation b adds to the transcript,
\* processed_result being what call_tool and _parse_result came to
ToolTurns(q1, b, processed_result) ==
    IF processed_result.raised THEN McpError(q1, processed_result.val)
    ELSE [q1 EXCEPT !.has_tool_calls = TRUE, !.block = @ + 1,
                    !.messages = @ \o <<AssistantToolUse(b),
                                        UserToolResult(b, processed_result.val)>>]

\* lines 112-140 for the block b
OneBlock(q, b, t) ==
    IF b.type # "tool_use" THEN [q EXCEPT !.block = @ + 1]
    ELSE ToolTurns(
            [q EXCEPT !.events =
                Append(@, [ev |-> "tool", seen |-> Len(q.messages), id |-> b.id,
                           content |-> <<>>, failed |-> t.kind = "raise"])],
            b,
            IF t.kind = "result" THEN _parse_result(PyObj(t.text))
            ELSE [raised |-> TRUE, val |-> t.text])

ForBlock(q, t) ==
    IF q.block > Len(q.message)
    THEN IF ~q.has_tool_calls THEN FinalResult(q)
         ELSE [q EXCEPT !.pc = "next_request"]
    ELSE OneBlock(q, q.message[q.block], t)

\* the events of one kind
RECURSIVE EventsOf(_, _)
EventsOf(events, kind) ==
    IF Len(events) = 0 THEN <<>>
    ELSE (IF Head(events).ev = kind THEN <<Head(events)>> ELSE <<>>)
            \o EventsOf(Tail(events), kind)

ModelRequests(q) == Len(EventsOf(q.events, "model"))

ToolCalls(q) == Len(EventsOf(q.events, "tool"))

\* execute_query from q to its return, against a server that behaves as
\* sc.connect, a tool session that answers every call sc.tool, and a model that
\* gives the answers sc.answers in turn (and fails to answer after the last)
RECURSIVE execute_query(_, _)
execute_query(q, sc) ==
    CASE q.pc = "done" -> q
      [] q.pc = "connect" -> execute_query(Connect(q, sc.connect), sc)
      [] q.pc = "blocks" -> execute_query(ForBlock(q, sc.tool), sc)
      [] OTHER ->
            execute_query(
                CreateMessage(q,
                    IF ModelRequests(q) < Len(sc.answers)
                    THEN sc.answers[ModelRequests(q) + 1]
                    ELSE [kind |-> "raise", text |-> "model unavailable"]),
                sc)

---------------------------------------------------------------------------
(* MCPRegistry (mcp_registry.py)                                           *)

SmitheryRegistry == "https://registry.smithery.ai"

\* __init__, line 22: os.getenv("SMITHERY_API_KEY", "")
RegistryKey(b, env_key) == IF env_key = None THEN "" ELSE env_key

NandaIgnoresEndpoint(mcp_registry_url, e, server_name, lg) ==
    Ret([found |-> e.nanda.kind = "200",
         server_url |-> IF e.nanda.kind = "200" THEN e.nanda.server_url ELSE None],
        [lg EXCEPT !.http =
            Append(@, mcp_registry_url \o "/mcp_servers/" \o server_name)])

\* get_nanda_mcp_server_info.  The registry's answer e.nanda is
\*   [kind |-> "200", server_url |-> u, endpoint |-> v]  (None: no such member),
\*   [kind |-> "status"] (a non-200 answer), [kind |-> "neterr"] (requests raises)
\*   or [kind |-> "badjson"] (a 200 answer whose body response.json() raises on,
\*   which the except clause of line 153 turns into None)
\* The result is the server_url of the descriptor, in found; found = FALSE is None
get_nanda_mcp_server_info(mcp_registry_url, e, server_name, lg) ==
    LET lg2 == [lg EXCEPT !.http =
                    Append(@, mcp_registry_url \o "/mcp_servers/" \o server_name)]
    IN  IF e.nanda.kind = "200"
        THEN Ret([found |-> TRUE,
                  server_url |-> IF Truthy(e.nanda.server_url)
                                 THEN e.nanda.server_url ELSE e.nanda.endpoint],
                 lg2)
        ELSE Ret([found |-> FALSE, server_url |-> None], lg2)

\* the loop of lines 207-214: the first connection that is http-typed with a
\* deployment URL or stdio-typed; 0 if there is none
RECURSIVE McpConnection(_, _)
McpConnection(connections, i) ==
    IF i > Len(connections) THEN 0
    ELSE IF connections[i].type = "http" /\ Truthy(connections[i].deploymentUrl) THEN i
    ELSE IF connections[i].type = "stdio" THEN i
    ELSE McpConnection(connections, i + 1)

\* build_smithery_server_url
build_smithery_server_url(server_info) ==
    LET i == McpConnection(server_info.connections, 1)
    IN  IF ~Truthy(server_info.deploymentUrl) THEN None
        ELSE IF i # 0 /\ Truthy(server_info.connections[i].deploymentUrl)
            THEN server_info.connections[i].deploymentUrl
        ELSE server_info.deploymentUrl

\* get_smithery_mcp_server_info_complete, with get_smithery_server_info.  The
\* Smithery registry's answer e.smithery is
\*   [kind |-> "200", deploymentUrl |-> u, connections |-> <<[type, deploymentUrl]>>],
\*   [kind |-> "status"] or [kind |-> "neterr"]
SmitheryWithoutKeyCheck(key, e, server_name, lg) ==
    LET lg2 == [lg EXCEPT !.http =
                    Append(@, SmitheryRegistry \o "/servers/" \o server_name)]
        url == IF e.smithery.kind = "200"
               THEN build_smithery_server_url(e.smithery) ELSE None
    IN  IF e.smithery.kind # "200" THEN Ret([found |-> FALSE, server_url |-> None], lg2)
        ELSE Ret([found |-> Truthy(url), server_url |-> url], lg2)

get_smithery_mcp_server_info_complete(key, e, server_name, lg) ==
    LET lg2 == [lg EXCEPT !.http =
                    Append(@, SmitheryRegistry \o "/servers/" \o server_name)]
        url == IF e.smithery.kind = "200"
               THEN build_smithery_server_url(e.smithery) ELSE None
    IN  IF ~Truthy(key) THEN Ret([found |-> FALSE, server_url |-> None], lg)
        ELSE IF e.smithery.kind # "200"
            THEN Ret([found |-> FALSE, server_url |-> None], lg2)
        ELSE Ret([found |-> Truthy(url), server_url |-> url], lg2)

\* get_mcp_server_info
get_mcp_server_info(mcp_registry_url, key, e, registry_provider, server_name, lg) ==
    IF Lower(registry_provider) = "smithery"
        THEN get_smithery_mcp_server_info_complete(key, e, server_name, lg)
    ELSE IF Lower(registry_provider) = "nanda"
        THEN get_nanda_mcp_server_info(mcp_registry_url, e, server_name, lg)
    ELSE Ret([found |-> FALSE, server_url |-> None], lg)

---------------------------------------------------------------------------
(* SimpleAgentBridge: tool queries and handle_message                      *)

\* _run_mcp_async: the URL the session is opened against (lines 310-317) and the
\* query run on a new MCPClient; _run_mcp_query_sync runs it on a thread of its
\* own, joins the thread and returns its result
\* lines 310-316: the URL the session is opened against
FinalServerUrl(b, server_url, registry_type) ==
    IF registry_type = "smithery" /\ Truthy(b.smithery_api_key)
    THEN server_url \o (IF Contains(server_url, "?") THEN "&" ELSE "?")
            \o "api_key=" \o b.smithery_api_key
    ELSE server_url

\* lines 296-304 and 320-322: the result of the finished query q
QueryResult(q, lg) == Ret(q.result, [lg EXCEPT !.queries = Append(@, q)])

_run_mcp_query_sync(b, e, server_url, query, registry_type, lg) ==
    QueryResult(
        execute_query(NewQuery(query, FinalServerUrl(b, server_url, registry_type)),
                      e.script),
        lg)

\* line 265: the text that reports the query's result r
McpReport(registry_part, server_name, r) ==
    Ret("(tool) " \o Title(registry_part) \o " MCP [" \o server_name \o "]: " \o r.val,
        r.log)

\* lines 255-268, info being what the registry lookup returned
McpFound(b, e, registry_part, server_name, query, info) ==
    IF ~info.val.found
    THEN Ret("(x) MCP server '" \o server_name \o "' not found in "
                \o registry_part \o " registry", info.log)
    ELSE IF ~Truthy(info.val.server_url)
    THEN Ret("(x) No server URL found for '" \o server_name \o "'", info.log)
    ELSE McpReport(registry_part, server_name,
            _run_mcp_query_sync(b, e, info.val.server_url, query, registry_part,
                                info.log))

\* lines 252-268: the registry lookup (a new MCPRegistry) and the query
McpResult(b, env_key, e, registry_part, server_name, query, lg) ==
    McpFound(b, e, registry_part, server_name, query,
             get_mcp_server_info(b.mcp_registry_url, RegistryKey(b, env_key), e,
                                 registry_part, server_name, lg))

InvalidMcpFormat == "(x) Invalid MCP message format. Use: #registry:server-name query"

\* _handle_mcp_message; MCP_AVAILABLE is TRUE (the two modules import)
\* lines 242-273, tail being rest.split(" ", 1): the server's name and the query
McpNamed(b, env_key, e, registry_part, tail, conversation_id, lg) ==
    IF ~Truthy(b.mcp_registry_url)
    THEN Ret(_create_response(b, conversation_id,
                "(x) MCP registry URL not configured"), lg)
    ELSE Respond(b, conversation_id,
            McpResult(b, env_key, e, registry_part, tail[1], tail[2], lg))

McpSplitAllSpaces(b, env_key, e, head, conversation_id, lg) ==
    IF ~Contains(head[2], " ")
    THEN Ret(_create_response(b, conversation_id, InvalidMcpFormat), lg)
    ELSE McpNamed(b, env_key, e, head[1], Split(head[2], " "), conversation_id, lg)

\* lines 227-273, head being user_text[1:].split(":", 1)
McpSplit(b, env_key, e, head, conversation_id, lg) ==
    IF ~Contains(head[2], " ")
    THEN Ret(_create_response(b, conversation_id, InvalidMcpFormat), lg)
    ELSE McpNamed(b, env_key, e, head[1], Split1(head[2], " "), conversation_id, lg)

_handle_mcp_message(b, env_key, e, user_text, conversation_id, lg) ==
    IF ~Contains(user_text, ":")
    THEN Ret(_create_response(b, conversation_id, InvalidMcpFormat), lg)
    ELSE McpSplit(b, env_key, e, Split1(SliceFrom(user_text, 1), ":"),
                  conversation_id, lg)

\* line 66: is the text an inbound envelope?
IsEnvelopeAnyOrder(user_text) ==
    Contains(user_text, "FROM:") /\ Contains(user_text, "TO:")
        /\ Contains(user_text, "MESSAGE:")

IsEnvelope(user_text) ==
    StartsWith(user_text, "FROM:") /\ Contains(user_text, "TO:")
        /\ Contains(user_text, "MESSAGE:")

DispatchTrimsPlain(b, env_key, e, user_text, conversation_id) ==
    IF StartsWith(user_text, "@")
        THEN [route |-> "outbound",
              r |-> _handle_agent_message(b, e, user_text, conversation_id, Log0)]
    ELSE IF StartsWith(user_text, "#")
        THEN [route |-> "mcp",
              r |-> _handle_mcp_message(b, env_key, e, user_text, conversation_id, Log0)]
    ELSE IF StartsWith(user_text, "/")
        THEN [route |-> "command",
              r |-> _handle_command(b, user_text, conversation_id, Log0)]
    ELSE [route |-> "plain",
          r |-> Respond(b, conversation_id,
                        agent_logic(e, Strip(user_text), conversation_id, Log0))]

\* lines 74-97: the try block of handle_message, with the handler it chose
Dispatch(b, env_key, e, user_text, conversation_id) ==
    IF StartsWith(user_text, "@")
        THEN [route |-> "outbound",
              r |-> _handle_agent_message(b, e, user_text, conversation_id, Log0)]
    ELSE IF StartsWith(user_text, "#")
        THEN [route |-> "mcp",
              r |-> _handle_mcp_message(b, env_key, e, user_text, conversation_id, Log0)]
    ELSE IF StartsWith(user_text, "/")
        THEN [route |-> "command",
              r |-> _handle_command(b, user_text, conversation_id, Log0)]
    ELSE [route |-> "plain",
          r |-> Respond(b, conversation_id,
                        agent_logic(e, user_text, conversation_id, Log0))]

NoReply == [role |-> "", text |-> "", conversation_id |-> ""]

\* handle_message: the reply Message (reply), or the exception that leaves the
\* call (raised, with error its text), what the call did (log) and the handler
\* that took the message (route).  m.content_type is "text" for a TextContent
\* line 54: conversation_id = msg.conversation_id or str(uuid.uuid4())
ConversationId(m) == IF Truthy(m.conversation_id) THEN m.conversation_id ELSE "uuid4"

\* lines 66-97: the envelope handler (line 67, outside the try block) or the
\* handler the try block chose
Routed(b, env_key, e, user_text, conversation_id) ==
    IF IsEnvelope(user_text)
    THEN [route |-> "inbound",
          r |-> _handle_incoming_agent_message(b, e, user_text, conversation_id, Log0)]
    ELSE Dispatch(b, env_key, e, user_text, conversation_id)

\* lines 99-103: the except clause of handle_message, d being the handler
\* chosen and what it came to; it does not cover the envelope handler
HandleExcept(b, conversation_id, d) ==
    IF d.r.raised /\ d.route = "inbound"
        THEN [raised |-> TRUE, error |-> d.r.val, route |-> d.route,
              log |-> d.r.log, reply |-> NoReply]
    ELSE IF d.r.raised
        THEN [raised |-> FALSE, error |-> "", route |-> d.route, log |-> d.r.log,
              reply |-> _create_response(b, conversation_id, "Error: " \o d.r.val)]
    ELSE [raised |-> FALSE, error |-> "", route |-> d.route, log |-> d.r.log,
          reply |-> d.r.val]

handle_message(b, env_key, e, m) ==
    IF m.content_type # "text"
    THEN [raised |-> FALSE, error |-> "", route |-> "nontext", log |-> Log0,
          reply |-> _create_response(b, ConversationId(m),
                        "Only text messages supported")]
    ELSE HandleExcept(b, ConversationId(m),
            Routed(b, env_key, e, m.text, ConversationId(m)))

---------------------------------------------------------------------------
(* The inputs                                                              *)

\* how many messages one bridge answers in a behaviour
MaxHandled == 2

\* how many requests one tool query sends to the model in a behaviour
MaxRounds == 4

Senders == {"bob", "b2"}
Addressees == {"alice", "zed"}
ReplyTexts == {"hi", "", "so  long", "hi "}

\* the bodies "Response to <X>: <t>" a peer's reply carries
ReplyBodies ==
    {ReplyMarker \o x \o ": " \o t : x \in {"alice", "al", "alice22"}, t \in ReplyTexts}

Bodies ==
    ReplyBodies \cup {"hello", "", "Response to", "Response to ", "Response tomorrow",
                      "response to alice: hi", "@bob hi",
                      "Response to alice: hi\nMESSAGE: hello"}

EnvelopeTexts == {SimpleMessage(f, t, b) : f \in Senders, t \in Addressees, b \in Bodies}

\* texts that hold the three labels and are laid out otherwise
LabelledTexts ==
    UNION {
      {"FROM: bob\nMESSAGE: " \o b \o "\nTO: alice",
       "FROM:bob\nTO:alice\nMESSAGE:" \o b,
       "FROM: bob TO: alice MESSAGE: " \o b,
       "TO: alice\nFROM: bob\nMESSAGE: " \o b,
       "MESSAGE: " \o b \o "\nTO: alice\nFROM: bob",
       " " \o SimpleMessage("bob", "alice", b),
       "@" \o SimpleMessage("bob", "alice", b),
       "#" \o SimpleMessage("bob", "alice", b),
       "/" \o SimpleMessage("bob", "alice", b)}
      : b \in {"hello", "Response to alice: hi"} }

OutboundTexts ==
    {"@bob hello", "@bob", "@ hello", "@test_agent hi there", "@bob  two", "@zed x"}

CommandTexts == {"/ping", "/help", "/status", "/foo", "/", "/ping now", "/Ping", "/ ping"}

McpTexts ==
    {"#smithery:foo query", "#nanda:weather what is it", "#nanda", "#nanda:weather",
     "#Smithery:foo q", "#SMITHERY:bar q", "#other:foo q", "#nanda weather: q",
     "#:x q", "#nanda:w ", "#nanda:a:b c d"}

PlainTexts == {"hello", "", "Response to alice: hi", "hello @bob", "FROM: bob"}

Messages ==
    {[text |-> t, conversation_id |-> "c1", content_type |-> "text"]
        : t \in EnvelopeTexts \cup LabelledTexts \cup OutboundTexts \cup CommandTexts
                \cup McpTexts \cup PlainTexts}
    \cup {[text |-> "hello", conversation_id |-> None, content_type |-> "text"],
          [text |-> "", conversation_id |-> "c1", content_type |-> "data"]}

NoMessage == [text |-> "", conversation_id |-> "", content_type |-> ""]

\* what the tool server, the tool session and the model may do in one query
ConnectOutcomes ==
    {[kind |-> "transport", tools |-> <<>>], [kind |-> "handshake", tools |-> <<>>],
     [kind |-> "list", tools |-> <<>>], [kind |-> "ok", tools |-> <<>>],
     [kind |-> "ok", tools |-> <<"get_weather">>]}

ToolOutcomes ==
    {[kind |-> "result", text |-> "content=[TextContent(text='21C')] isError=False"],
     [kind |-> "raise", text |-> "tool timeout"]}

Contents ==
    {<<>>,
     <<TextBlock("Sunny.")>>,
     <<TextBlock("It is"), TextBlock("sunny")>>,
     <<TextBlock(" padded ")>>,
     <<TextBlock("")>>,
     <<TextBlock("{\"temp_c\": 21}")>>,
     <<TextBlock("{\"result\": 5}")>>,
     <<ToolUse("tu1", "get_weather", "{}")>>,
     <<TextBlock("Let me check."), ToolUse("tu1", "get_weather", "{}")>>,
     <<ToolUse("tu1", "get_weather", "{}"), ToolUse("tu2", "get_weather", "{}")>>}

ModelAnswers ==
    {[kind |-> "content", content |-> c, text |-> ""] : c \in Contents}
    \cup {[kind |-> "raise", content |-> <<>>, text |-> "overloaded"]}

Answer(c) == [kind |-> "content", content |-> c, text |-> ""]

OneTool == <<ToolUse("tu1", "get_weather", "{}")>>

GoodServer == [kind |-> "ok", tools |-> <<"get_weather">>]

GoodTool ==
    [kind |-> "result", text |-> "content=[TextContent(text='21C')] isError=False"]

\* whole queries, for a handle_message that runs one to its end
Scripts ==
    {[connect |-> c, answers |-> <<>>, tool |-> GoodTool]
        : c \in ConnectOutcomes \ {GoodServer}}
    \cup {[connect |-> GoodServer, answers |-> a, tool |-> t]
        : a \in {<<>>, <<Answer(<<TextBlock("Sunny.")>>)>>, <<Answer(<<>>)>>,
                 <<Answer(<<TextBlock("{\"result\": 5}")>>)>>,
                 <<Answer(OneTool), Answer(<<TextBlock("21C")>>)>>,
                 <<Answer(OneTool), Answer(OneTool)>>},
          t \in ToolOutcomes}

LogicOutcomes ==
    {[raises |-> FALSE, value |-> "fine"],
     [raises |-> FALSE, value |-> "Response to bob: fine"],
     [raises |-> TRUE, value |-> "logic broke"]}

LookupOutcomes ==
    {[kind |-> "200", agent_url |-> "http://bob"],
     [kind |-> "200", agent_url |-> "http://bob/a2a"],
     [kind |-> "200", agent_url |-> None],
     [kind |-> "status", agent_url |-> None],
     [kind |-> "neterr", agent_url |-> None],
     [kind |-> "badjson", agent_url |-> None]}

DeliveryOutcomes ==
    {[kind |-> "parts", text |-> "[bob] Response to alice: fine"],
     [kind |-> "noparts", text |-> "<Message>"],
     [kind |-> "none", text |-> ""],
     [kind |-> "raise", text |-> "peer timeout"]}

NandaOutcomes ==
    {[kind |-> "200", server_url |-> "https://x/mcp", endpoint |-> None],
     [kind |-> "200", server_url |-> None, endpoint |-> "https://y/mcp"],
     [kind |-> "200", server_url |-> None, endpoint |-> None],
     [kind |-> "status", server_url |-> None, endpoint |-> None],
     [kind |-> "neterr", server_url |-> None, endpoint |-> None],
     [kind |-> "badjson", server_url |-> None, endpoint |-> None]}

Conn(type, url) == [type |-> type, deploymentUrl |-> url]

SmitheryOutcomes ==
    {[kind |-> "200", deploymentUrl |-> "https://d", connections |-> <<>>],
     [kind |-> "200", deploymentUrl |-> "https://d",
      connections |-> <<Conn("stdio", None), Conn("http", "https://h")>>],
     [kind |-> "200", deploymentUrl |-> "https://d",
      connections |-> <<Conn("http", "https://h?x=1")>>],
     [kind |-> "200", deploymentUrl |-> None,
      connections |-> <<Conn("http", "https://h")>>],
     [kind |-> "status", deploymentUrl |-> None, connections |-> <<>>],
     [kind |-> "neterr", deploymentUrl |-> None, connections |-> <<>>]}

Env0 ==
    [logic |-> [raises |-> FALSE, value |-> "fine"],
     lookup |-> [kind |-> "status", agent_url |-> None],
     delivery |-> [kind |-> "none", text |-> ""],
     nanda |-> [kind |-> "200", server_url |-> "https://x/mcp", endpoint |-> None],
     smithery |-> [kind |-> "200", deploymentUrl |-> "https://d", connections |-> <<>>],
     script |-> [connect |-> [kind |-> "transport", tools |-> <<>>], answers |-> <<>>,
                 tool |-> GoodTool]]

\* the behaviours of the collaborators during one handle_message: each handler
\* consults its own collaborators only, so they are varied a group at a time
Envs ==
    {[Env0 EXCEPT !.logic = l] : l \in LogicOutcomes}
    \cup {[Env0 EXCEPT !.lookup = l, !.delivery = d]
            : l \in LookupOutcomes, d \in DeliveryOutcomes}
    \cup {[Env0 EXCEPT !.nanda = n, !.smithery = s] : n \in NandaOutcomes, s \in SmitheryOutcomes}
    \cup {[Env0 EXCEPT !.script = sc] : sc \in Scripts}

Queries == {"what is the weather", "{\"q\": 1}"}

---------------------------------------------------------------------------
(* The bridge serving messages: Spec                                       *)

NoOut == [raised |-> FALSE, error |-> "", route |-> "", log |-> Log0, reply |-> NoReply]

Init ==
    /\ environ \in {None, "ekey"}
    /\ bridge \in {NewBridge("alice", r, m, k, environ)
                    : r \in {None, "http://reg"}, m \in {None, "http://mcpreg"},
                      k \in {None, "bkey"}}
    /\ pc = "idle"
    /\ msg = NoMessage
    /\ world = Env0
    /\ out = NoOut
    /\ handled = 0
    /\ mcp = NoQuery
    /\ fmt = NoFormat
    /\ threads = NoThreads
    /\ registry = NoRegistry
    /\ net = NoNet

\* the transport hands the bridge a message
Receive ==
    /\ pc = "idle"
    /\ handled < MaxHandled
    /\ \E m \in Messages : msg' = m
    /\ pc' = "handling"
    /\ UNCHANGED <<bridge, environ, world, out, handled, mcp, fmt, threads,
                 registry, net>>

HandleMessageForgetsRegistry ==
    /\ pc = "handling"
    /\ \E e \in Envs :
            /\ world' = e
            /\ out' = handle_message(bridge, environ, e, msg)
    /\ pc' = "replied"
    /\ bridge' = IF out'.route = "outbound" /\ out'.log.http # <<>> /\ out'.log.sent = <<>>
                 THEN [bridge EXCEPT !.registry_url = None]
                 ELSE bridge
    /\ UNCHANGED <<environ, msg, handled, mcp, fmt, threads,
                 registry, net>>

\* handle_message runs, against collaborators that behave as e
HandleMessage ==
    /\ pc = "handling"
    /\ \E e \in Envs :
            /\ world' = e
            /\ out' = handle_message(bridge, environ, e, msg)
    /\ pc' = "replied"
    /\ UNCHANGED <<bridge, environ, msg, handled, mcp, fmt, threads,
                 registry, net>>

\* the transport sends the reply (or reports the exception) and is free again
Return ==
    /\ pc = "replied"
    /\ pc' = "idle"
    /\ handled' = handled + 1
    /\ msg' = NoMessage
    /\ world' = Env0
    /\ out' = NoOut
    /\ UNCHANGED <<bridge, environ, mcp, fmt, threads,
                 registry, net>>

Next == Receive \/ HandleMessage \/ Return

Spec == Init /\ [][Next]_vars

---------------------------------------------------------------------------
(* One tool query, step by step: SpecLoop                                  *)

InitLoop ==
    /\ environ = None
    /\ bridge = NewBridge("alice", None, "http://mcpreg", None, None)
    /\ pc = "query"
    /\ msg = NoMessage
    /\ world = Env0
    /\ out = NoOut
    /\ handled = 0
    /\ \E query \in Queries : mcp = NewQuery(query, "https://x/mcp")
    /\ fmt = NoFormat
    /\ threads = NoThreads
    /\ registry = NoRegistry
    /\ net = NoNet

\* connect_to_server, and the check of its result; world keeps what the
\* server did
ConnectToServer ==
    /\ mcp.pc = "connect"
    /\ \E c \in ConnectOutcomes :
            /\ mcp' = Connect(mcp, c)
            /\ world' = [world EXCEPT !.script.connect = c]
    /\ UNCHANGED <<bridge, environ, pc, msg, out, handled, fmt, threads,
                 registry, net>>

\* a request to the model: the first (line 99) or a later one (line 145)
RequestModel ==
    /\ mcp.pc \in {"first_request", "next_request"}
    /\ ModelRequests(mcp) < MaxRounds
    /\ \E a \in ModelAnswers : mcp' = CreateMessage(mcp, a)
    /\ UNCHANGED <<bridge, environ, pc, msg, world, out, handled, fmt, threads,
                 registry, net>>

\* one turn of the for loop over the blocks of the model's response
LoopBlock ==
    /\ mcp.pc = "blocks"
    /\ \E t \in ToolOutcomes : mcp' = ForBlock(mcp, t)
    /\ UNCHANGED <<bridge, environ, pc, msg, world, out, handled, fmt, threads,
                 registry, net>>

NextLoop == ConnectToServer \/ RequestModel \/ LoopBlock

SpecLoop == InitLoop /\ [][NextLoop]_vars

---------------------------------------------------------------------------
(* The response formatter applied to a value, and again to what it         *)
(* returned: SpecFormat                                                    *)

\* how many times in a row the formatter is applied
MaxPasses == 2

\* the values given to _parse_result: texts that are not JSON, with and
\* without braces, texts that are JSON (objects, JSON-RPC answers, well formed
\* and not, arrays, scalars), and values that are not texts
FormatInputs ==
    {PyStr(s) : s \in
        {"Sunny.", "", " padded ", "21C", "It is\nsunny", "[alice] hi",
         "a } then {", "{not json}", "{", "}",
         "see {\"temp_c\": 21} ok", "{\"a\": 1} and {\"b\": 2}", "x {} y",
         "{\"temp_c\": 21}", "{\"user_name\": \"bo\"}", "{\"a\": {\"b_c\": 1}}",
         "{\"xs\": [1, 2, 3, 4, 5, 6]}", "{}",
         "{\"result\": {\"artifacts\": [{\"parts\": [{\"text\": \"hi\"}]}]}}",
         "{\"result\": {\"artifacts\": [{\"parts\": [{\"text\": \"{\"}]}]}}",
         "{\"result\": {\"artifacts\": []}}", "{\"result\": {}}",
         "{\"result\": 5}", "{\"result\": null}", "{\"result\": \"ok\"}",
         "{\"result\": {\"artifacts\": [5]}}", "{\"result\": {\"artifacts\": 3}}",
         "{\"result\": {\"artifacts\": \"ab\"}}",
         "{\"result\": {\"artifacts\": [{\"parts\": [7]}]}}",
         "[1, 2]", "5", "-3", "true", "null", "\"quoted\""}}
    \cup {PyDict(<<[k |-> "temp_c", v |-> PyInt(21)]>>),
          PyDict(<<[k |-> "result", v |-> PyInt(5)]>>),
          PyDict(<<>>),
          PyList(<<PyInt(1), PyStr("a")>>),
          PyList(<<>>),
          PyInt(5), PyNone, PyBool(TRUE),
          PyObj("content=[TextContent(text='21C')] isError=False")}

InitFormat ==
    /\ environ = None
    /\ bridge = NewBridge("alice", None, "http://mcpreg", None, None)
    /\ pc = "format"
    /\ msg = NoMessage
    /\ world = Env0
    /\ out = NoOut
    /\ handled = 0
    /\ mcp = NoQuery
    /\ \E response \in FormatInputs : fmt = [response |-> response, results |-> <<>>]
    /\ threads = NoThreads
    /\ registry = NoRegistry
    /\ net = NoNet

\* one call of _parse_result, on the value and then on the text the call
\* before returned; a call that raised is not followed by another
ParseResult ==
    /\ pc = "format"
    /\ Len(fmt.results) < MaxPasses
    /\ fmt.results # <<>> => ~fmt.results[Len(fmt.results)].raised
    /\ fmt' = [fmt EXCEPT !.results = Append(@, _parse_result(
                        IF fmt.results = <<>> THEN fmt.response
                        ELSE PyStr(fmt.results[Len(fmt.results)].val)))]
    /\ UNCHANGED <<bridge, environ, pc, msg, world, out, handled, mcp, threads,
                 registry, net>>

NextFormat == ParseResult

SpecFormat == InitFormat /\ [][NextFormat]_vars

---------------------------------------------------------------------------
(* _format_json_response applied to sequences of every length around the   *)
(* two caps: SpecRender                                                    *)

\* the longest top-level sequence and the longest sequence inside a mapping
MaxTopItems == 12
MaxNestedItems == 7

\* what the items of a sequence are: numbers, texts, mappings, or mappings
\* and numbers in turn
ItemKinds == {"int", "str", "dict", "mixed"}

\* the item at place i of a sequence of the kind
ItemAt(kind, i) ==
    CASE kind = "int" -> PyInt(i + 40)
      [] kind = "str" -> PyStr("v" \o ToString(i))
      [] kind = "dict" -> PyDict(<<[k |-> "id", v |-> PyInt(i + 40)]>>)
      [] OTHER -> IF i % 2 = 1 THEN PyDict(<<[k |-> "id", v |-> PyInt(i + 40)]>>)
                  ELSE PyInt(i + 40)

ItemsOf(kind, n) == [i \in 1..n |-> ItemAt(kind, i)]

\* the values given to _format_json_response: sequences at top level, as the
\* value of a mapping's key, and as JSON texts
RenderInputs ==
    {PyList(ItemsOf(kind, n)) : kind \in ItemKinds, n \in 0..MaxTopItems}
    \cup {PyDict(<<[k |-> "open_days", v |-> PyList(ItemsOf(kind, n))]>>) :
            kind \in ItemKinds, n \in 0..MaxNestedItems}
    \cup {PyStr(s) : s \in
            {"[1, 2, 3]", "[1, 2, 3, 4, 5, 6, 7, 8, 9, 10, 11]",
             "{\"xs\": [1, 2, 3, 4, 5, 6]}", "[{\"id\": 1}, 2]"}}

InitRender ==
    /\ environ = None
    /\ bridge = NewBridge("alice", None, "http://mcpreg", None, None)
    /\ pc = "render"
    /\ msg = NoMessage
    /\ world = Env0
    /\ out = NoOut
    /\ handled = 0
    /\ mcp = NoQuery
    /\ \E data \in RenderInputs : fmt = [response |-> data, results |-> <<>>]
    /\ threads = NoThreads
    /\ registry = NoRegistry
    /\ net = NoNet

\* one call of _format_json_response on the value
FormatJsonResponse ==
    /\ pc = "render"
    /\ fmt.results = <<>>
    /\ fmt' = [fmt EXCEPT !.results =
                <<[raised |-> FALSE, val |-> _format_json_response(fmt.response)]>>]
    /\ UNCHANGED <<bridge, environ, pc, msg, world, out, handled, mcp, threads,
                 registry, net>>

NextRender == FormatJsonResponse

SpecRender == InitRender /\ [][NextRender]_vars

---------------------------------------------------------------------------
(* Two tool queries in flight at once: SpecThreads                         *)
(*                                                                         *)
(* Two threads of the server call _run_mcp_query_sync on the same bridge;  *)
(* each call starts a worker thread, and the steps of the two workers      *)
(* interleave freely.                                                      *)

\* the query of caller i, and what the model and the server do for it
QueryOfCaller(i) == "query " \o ToString(i)

ThreadAnswers(i) ==
    {Answer(<<TextBlock("answer " \o ToString(i))>>),
     Answer(<<ToolUse("tu" \o ToString(i), "get_weather", "{}")>>),
     [kind |-> "raise", content |-> <<>>, text |-> "overloaded"]}

ThreadConnects == {GoodServer, [kind |-> "handshake", tools |-> <<>>]}

QueryFailed == "(x) MCP query failed"

InitThreads ==
    /\ environ = None
    /\ bridge = NewBridge("alice", None, "http://mcpreg", None, None)
    /\ pc = "threads"
    /\ msg = NoMessage
    /\ world = Env0
    /\ out = NoOut
    /\ handled = 0
    /\ mcp = NoQuery
    /\ fmt = NoFormat
    /\ threads = [NoThreads EXCEPT !.call = [i \in Callers |-> NewCall(QueryOfCaller(i))]]
    /\ registry = NoRegistry
    /\ net = NoNet

\* lines 299-300: thread = threading.Thread(target=thread_target); thread.start()
StartThread(i) ==
    /\ threads.call[i].pc = "call"
    /\ threads' = [threads EXCEPT !.call[i].pc = "join", !.call[i].worker = "started"]

SharedClient(th, i) == 1

\* line 320: client = MCPClient(), a new object at every call
NewClient(th, i) == i

\* the worker up to the call of execute_query (lines 286-321): a new event
\* loop, set as the loop of the worker thread, and a new MCPClient.  The loop
\* cannot be made (the worker ends with nothing stored), or the client cannot
\* (line 324 makes a text of the error), or both are
RunAsync(i) ==
    /\ threads.call[i].worker = "started"
    /\ \E o \in {"ok", "no loop", "no client"} :
        threads' =
            CASE o = "no loop" -> [threads EXCEPT !.call[i].worker = "died"]
              [] o = "no client" ->
                    [threads EXCEPT !.loops = @ + 1,
                                    !.call[i].loop = threads.loops + 1,
                                    !.call[i].worker = "finished",
                                    !.call[i].result_container =
                                        <<QueryFailed \o ": no client">>]
              [] OTHER ->
                    [threads EXCEPT !.loops = @ + 1,
                                    !.call[i].loop = threads.loops + 1,
                                    !.call[i].client = NewClient(threads, i),
                                    !.call[i].worker = "running",
                                    !.call[i].q =
                                        NewQuery(threads.call[i].query,
                                                 FinalServerUrl(bridge, "https://x/mcp",
                                                                "nanda"))]

\* connect_to_server on the worker's client: the session it opens is stored
\* in the client object (mcp_client.py line 53)
WorkerConnect(i) ==
    /\ threads.call[i].worker = "running"
    /\ threads.call[i].q.pc = "connect"
    /\ \E c \in ThreadConnects :
        threads' = [threads EXCEPT
                        !.call[i].q = Connect(@, c),
                        !.session_of[threads.call[i].client] =
                            IF c.kind = "transport" THEN @ ELSE i]

\* a request to the model (lines 99 and 145)
WorkerRequest(i) ==
    /\ threads.call[i].worker = "running"
    /\ threads.call[i].q.pc \in {"first_request", "next_request"}
    /\ ModelRequests(threads.call[i].q) < MaxRounds
    /\ \E a \in ThreadAnswers(i) :
        threads' = [threads EXCEPT !.call[i].q = CreateMessage(@, a)]

\* is the block the for loop of q stands at a tool invocation?
AtToolUse(q) == q.block <= Len(q.message) /\ q.message[q.block].type = "tool_use"

\* one turn of the for loop; line 117 calls the tool on self.session, the
\* session the worker's client object holds at that moment
WorkerBlock(i) ==
    /\ threads.call[i].worker = "running"
    /\ threads.call[i].q.pc = "blocks"
    /\ \E t \in ToolOutcomes :
        threads' = [threads EXCEPT
                        !.call[i].q = ForBlock(@, t),
                        !.call[i].used =
                            IF AtToolUse(threads.call[i].q)
                            THEN @ \cup {threads.session_of[threads.call[i].client]}
                            ELSE @]

\* lines 291-297: the loop is closed and thread_target stores what
\* run_async_mcp returned
StoreResult(i) ==
    /\ threads.call[i].worker = "running"
    /\ threads.call[i].q.pc = "done"
    /\ threads' = [threads EXCEPT
                        !.call[i].worker = "finished",
                        !.call[i].result_container = <<threads.call[i].q.result>>]

JoinableAtOnce(c) == TRUE

\* line 301: thread.join() returns once the worker thread has ended
Joinable(c) == c.worker \in {"finished", "died"}

\* lines 301-303: the join, and the return of what the worker stored
JoinThread(i) ==
    /\ threads.call[i].pc = "join"
    /\ Joinable(threads.call[i])
    /\ threads' = [threads EXCEPT
                        !.call[i].pc = "returned",
                        !.call[i].result =
                            IF threads.call[i].result_container # <<>>
                            THEN threads.call[i].result_container[1]
                            ELSE QueryFailed]

NextThreads ==
    /\ \E i \in Callers :
            \/ StartThread(i)
            \/ RunAsync(i)
            \/ WorkerConnect(i)
            \/ WorkerRequest(i)
            \/ WorkerBlock(i)
            \/ StoreResult(i)
            \/ JoinThread(i)
    /\ UNCHANGED <<bridge, environ, pc, msg, world, out, handled, mcp, fmt,
                 registry, net>>

SpecThreads == InitThreads /\ [][NextThreads]_vars

---------------------------------------------------------------------------
(* The mock tool registry (test/mockup_mcp_registry/app.py): SpecRegistry  *)
(*                                                                         *)
(* The collection is a list of documents; a document is modelled by its    *)
(* qualified_name, server_url and endpoint (description, tags and the two  *)
(* timestamps play no part in a lookup).  The collection has no unique     *)
(* index: find_one, replace_one and delete_one act on the first document   *)
(* that matches their filter.  A handler makes one call to the store, and  *)
(* the store either applies it or raises before applying it (db).          *)

\* how many requests the registry serves in a behaviour
MaxRequests == 4

ServerUrls == {"https://p/mcp", "https://w/mcp"}

\* the place of the first document named so, 0 if there is none
FirstNamed(collection, name) ==
    IF \E i \in 1..Len(collection) : collection[i].qualified_name = name
    THEN CHOOSE i \in 1..Len(collection) :
            /\ collection[i].qualified_name = name
            /\ \A j \in 1..(i - 1) : collection[j].qualified_name # name
    ELSE 0

\* collection.find_one({"qualified_name": name}): found is FALSE for None
find_one(collection, name) ==
    IF FirstNamed(collection, name) = 0
    THEN [found |-> FALSE, doc |-> [qualified_name |-> name, server_url |-> None,
                                    endpoint |-> None]]
    ELSE [found |-> TRUE, doc |-> collection[FirstNamed(collection, name)]]

\* an insert whatever the collection holds
ReplaceOneInserts(collection, name, doc) ==
    [collection |-> Append(collection, doc), upserted |-> TRUE]

\* collection.replace_one({"qualified_name": name}, doc, upsert=True): the
\* first match is replaced where it stands, a document is inserted if none
\* matches (upserted: result.upserted_id is set)
replace_one(collection, name, doc) ==
    IF FirstNamed(collection, name) = 0
    THEN [collection |-> Append(collection, doc), upserted |-> TRUE]
    ELSE [collection |-> [collection EXCEPT ![FirstNamed(collection, name)] = doc],
          upserted |-> FALSE]

\* collection.delete_one({"qualified_name": name}): the first match is removed
delete_one(collection, name) ==
    IF FirstNamed(collection, name) = 0
    THEN [collection |-> collection, deleted_count |-> 0]
    ELSE [collection |->
            SubSeq(collection, 1, FirstNamed(collection, name) - 1)
                \o SubSeq(collection, FirstNamed(collection, name) + 1, Len(collection)),
          deleted_count |-> 1]

\* lines 90-98: the document built from the request's JSON
ServerDoc(data) ==
    [qualified_name |-> data.qualified_name,
     server_url |-> data.server_url,
     endpoint |-> IF data.endpoint = None THEN data.server_url ELSE data.endpoint]

\* the bodies POSTed to /mcp_servers: JSON objects with and without the two
\* required fields and the optional endpoint (None: the field is absent), and
\* a body that is not JSON
PostBodies ==
    {[json |-> TRUE, qualified_name |-> n, server_url |-> u, endpoint |-> e]
        : n \in RegistryNames \cup {None}, u \in ServerUrls \cup {None},
          e \in {None, "https://e/mcp"}}
    \cup {[json |-> FALSE, qualified_name |-> None, server_url |-> None,
           endpoint |-> None]}

DbOutcomes == {"ok", "raise"}

\* the collection once the script has started (lines 136-159): it upserts the
\* nanda-points server into the store, or logs that it could not
InitRegistry ==
    /\ environ = None
    /\ bridge = NewBridge("alice", None, "http://mcpreg", None, None)
    /\ pc = "registry"
    /\ msg = NoMessage
    /\ world = Env0
    /\ out = NoOut
    /\ handled = 0
    /\ mcp = NoQuery
    /\ fmt = NoFormat
    /\ threads = NoThreads
    /\ net = NoNet
    /\ \E db \in DbOutcomes :
            registry =
                IF db = "raise" THEN NoRegistry
                ELSE [NoRegistry EXCEPT
                        !.collection =
                            replace_one(<<>>, "nanda-points",
                                [qualified_name |-> "nanda-points",
                                 server_url |-> "https://p/mcp",
                                 endpoint |-> "https://p/mcp"]).collection,
                        !.latest["nanda-points"] = "https://p/mcp"]

\* what a handler leaves behind: the collection, the request and its answer
Served(collection, latest, request, status, server_url) ==
    [collection |-> collection, latest |-> latest, request |-> request,
     response |-> [status |-> status, server_url |-> server_url,
                   count |-> Len(collection)],
     served |-> registry.served + 1]

\* list_servers (lines 44-55): GET /mcp_servers
ListServers ==
    /\ pc = "registry"
    /\ registry.served < MaxRequests
    /\ \E db \in DbOutcomes :
            registry' = Served(registry.collection, registry.latest,
                               [op |-> "list", name |-> "", db |-> db],
                               IF db = "raise" THEN 500 ELSE 200, None)
    /\ UNCHANGED <<bridge, environ, pc, msg, world, out, handled, mcp, fmt, threads, net>>

\* get_server (lines 57-75): GET /mcp_servers/<server_name>
GetServer ==
    /\ pc = "registry"
    /\ registry.served < MaxRequests
    /\ \E server_name \in RegistryNames, db \in DbOutcomes :
            LET server == find_one(registry.collection, server_name)
                request == [op |-> "get", name |-> server_name, db |-> db]
            IN  registry' =
                    IF db = "raise"
                    THEN Served(registry.collection, registry.latest, request, 500, None)
                    ELSE IF server.found
                    THEN Served(registry.collection, registry.latest, request,
                                200, server.doc.server_url)
                    ELSE Served(registry.collection, registry.latest, request, 404, None)
    /\ UNCHANGED <<bridge, environ, pc, msg, world, out, handled, mcp, fmt, threads, net>>

\* register_server (lines 77-116): POST /mcp_servers
RegisterServer ==
    /\ pc = "registry"
    /\ registry.served < MaxRequests
    /\ \E data \in PostBodies, db \in DbOutcomes :
            LET request == [op |-> "register", name |-> data.qualified_name, db |-> db]
                result == replace_one(registry.collection, data.qualified_name,
                                      ServerDoc(data))
            IN  registry' =
                    IF ~data.json
                    THEN Served(registry.collection, registry.latest, request, 500, None)
                    ELSE IF data.qualified_name = None \/ data.server_url = None
                    THEN Served(registry.collection, registry.latest, request, 400, None)
                    ELSE IF db = "raise"
                    THEN Served(registry.collection, registry.latest, request, 500, None)
                    ELSE Served(result.collection,
                                [registry.latest EXCEPT
                                    ![data.qualified_name] = data.server_url],
                                request,
                                IF result.upserted THEN 201 ELSE 200,
                                data.server_url)
    /\ UNCHANGED <<bridge, environ, pc, msg, world, out, handled, mcp, fmt, threads, net>>

\* delete_server (lines 118-132): DELETE /mcp_servers/<server_name>
DeleteServer ==
    /\ pc = "registry"
    /\ registry.served < MaxRequests
    /\ \E server_name \in RegistryNames, db \in DbOutcomes :
            LET request == [op |-> "delete", name |-> server_name, db |-> db]
                result == delete_one(registry.collection, server_name)
            IN  registry' =
                    IF db = "raise"
                    THEN Served(registry.collection, registry.latest, request, 500, None)
                    ELSE IF result.deleted_count > 0
                    THEN Served(result.collection,
                                [registry.latest EXCEPT ![server_name] = None],
                                request, 200, None)
                    ELSE Served(registry.collection, registry.latest, request, 404, None)
    /\ UNCHANGED <<bridge, environ, pc, msg, world, out, handled, mcp, fmt, threads, net>>

NextRegistry == ListServers \/ GetServer \/ RegisterServer \/ DeleteServer

SpecRegistry == InitRegistry /\ [][NextRegistry]_vars

---------------------------------------------------------------------------
(* Two bridges that reach each other: SpecPair                             *)
(*                                                                         *)
(* alice and bob are two SimpleAgentBridge servers that share a registry.  *)
(* A user's message is handled by alice; an envelope a bridge sends        *)
(* (A2AClient.send_message, line 346) is an HTTP request that the peer's   *)
(* server answers by running its own handle_message, while the sender's    *)
(* call waits for the answer.  calls is the stack of handle_message calls  *)
(* in progress, the innermost last; delivered lists the envelopes the      *)
(* peers received, invoked the agent-logic calls made, replies what the    *)
(* user was answered.                                                      *)

\* how deep the calls in progress may nest in a behaviour
MaxDepth == 3

Agents == {"alice", "bob"}

PeerOf(agent) == IF agent = "alice" THEN "bob" ELSE "alice"

PairBridge(agent) == NewBridge(agent, "http://reg", None, None, None)

\* the server that listens at the URL
AgentAt(url) == IF url = "http://bob/a2a" THEN "bob" ELSE "alice"

\* what the user writes to alice
PairTexts ==
    {"@bob hello", "@bob ", "@bob  two", "@bob Response to alice: hi",
     "@bob @alice hi", "@bob /ping",
     "@bob FROM: zed\nTO: alice\nMESSAGE: stop", "@bob one\ntwo",
     "@bob", "hello"}

\* what the registry does when asked for a peer: it answers with the peer's
\* address, with or without the endpoint's path, or does not answer
PairLookups == {"200", "200/a2a", "status", "neterr"}

\* what the agent logic of both bridges does
PairLogics ==
    {[raises |-> FALSE, value |-> "fine"],
     [raises |-> FALSE, value |-> "@alice back"],
     [raises |-> FALSE, value |-> "FROM: bob\nTO: alice\nMESSAGE: again"],
     [raises |-> TRUE, value |-> "logic broke"]}

\* the link between the two servers: it carries the envelope and the answer
\* ("ok"), fails before the envelope is delivered ("down"), or delivers the
\* envelope and fails to return the answer ("lost")
Reaches == {"ok", "down", "lost"}

Unsent == [kind |-> "unsent", text |-> ""]

\* the registry's answer to the agent's lookup of its peer
LookupFor(agent) ==
    CASE net.lookup = "200" ->
            [kind |-> "200", agent_url |-> "http://" \o PeerOf(agent)]
      [] net.lookup = "200/a2a" ->
            [kind |-> "200", agent_url |-> "http://" \o PeerOf(agent) \o "/a2a"]
      [] OTHER -> [kind |-> net.lookup, agent_url |-> None]

\* the collaborators as the agent's handle_message call meets them, answer
\* being what send_message comes to
PairWorld(agent, answer) ==
    [Env0 EXCEPT !.logic = net.logic,
                 !.lookup = LookupFor(agent),
                 !.delivery = IF answer.kind = "unsent"
                              THEN [kind |-> "none", text |-> ""]
                              ELSE answer]

\* the call's handle_message, run with the answer it has
CallOutcome(call) ==
    handle_message(PairBridge(call.agent), None, PairWorld(call.agent, call.answer),
                   call.msg)

InitPair ==
    /\ environ = None
    /\ bridge = PairBridge("alice")
    /\ pc = "pair"
    /\ msg = NoMessage
    /\ world = Env0
    /\ out = NoOut
    /\ handled = 0
    /\ mcp = NoQuery
    /\ fmt = NoFormat
    /\ threads = NoThreads
    /\ registry = NoRegistry
    /\ net = NoNet

\* the user's message reaches alice, whose handle_message call starts
UserSends ==
    /\ pc = "pair"
    /\ net.stage = "idle"
    /\ \E text \in PairTexts, lookup \in PairLookups, logic \in PairLogics,
          reach \in Reaches :
            net' = [net EXCEPT
                        !.stage = "running", !.text = text, !.lookup = lookup,
                        !.logic = logic, !.reach = reach,
                        !.calls = <<[agent |-> "alice",
                                     msg |-> [text |-> text, conversation_id |-> "c1",
                                              content_type |-> "text"],
                                     answer |-> Unsent]>>]
    /\ UNCHANGED <<bridge, environ, pc, msg, world, out, handled, mcp, fmt, threads,
                   registry>>

\* the innermost call in progress
Innermost == net.calls[Len(net.calls)]

\* the peer's server receives the envelope and starts a handle_message call
Received(sender, envelope) ==
    [net EXCEPT
        !.calls[Len(net.calls)].answer = [kind |-> "pending", text |-> ""],
        !.calls = Append(@,
            [agent |-> AgentAt(envelope.url),
             msg |-> [text |-> envelope.text,
                      conversation_id |-> envelope.conversation_id,
                      content_type |-> "text"],
             answer |-> Unsent]),
        !.delivered = Append(@,
            [from |-> sender, to |-> AgentAt(envelope.url), text |-> envelope.text])]

\* send_message with sent being the envelopes the call has to send
Sending(sender, sent) ==
    /\ sent # <<>>
    /\ net' =
        IF net.reach = "down"
        THEN [net EXCEPT !.calls[Len(net.calls)].answer =
                            [kind |-> "raise", text |-> "connection refused"]]
        ELSE Received(sender, sent[1])

\* line 346: the innermost call sends its envelope; the peer's server
\* receives it and starts a handle_message call of its own, unless the link
\* is down and send_message raises
SendMessage ==
    /\ pc = "pair"
    /\ net.stage = "running"
    /\ Len(net.calls) < MaxDepth
    /\ Innermost.answer = Unsent
    /\ Sending(Innermost.agent, CallOutcome(Innermost).log.sent)
    /\ UNCHANGED <<bridge, environ, pc, msg, world, out, handled, mcp, fmt, threads,
                   registry>>

\* what the sender's send_message comes to once the peer's call has returned
\* r: the reply's text as the first part, or an error where the peer's call
\* raised or the answer was lost on the way
AnswerOf(r) ==
    IF net.reach = "lost" THEN [kind |-> "raise", text |-> "peer timeout"]
    ELSE IF r.raised THEN [kind |-> "raise", text |-> "500 Server Error"]
    ELSE [kind |-> "parts", text |-> r.reply.text]

\* the agent-logic calls made by the agent's handle_message
InvokedBy(agent, r) ==
    [i \in 1..Len(r.log.logic) |-> [agent |-> agent, text |-> r.log.logic[i][1]]]

\* the call returns r, to the call that was waiting for it or to the user
Returning(agent, r) ==
    /\ Innermost.answer = Unsent => r.log.sent = <<>>
    /\ net' =
        IF Len(net.calls) = 1
        THEN [net EXCEPT !.stage = "done", !.calls = <<>>,
                         !.invoked = @ \o InvokedBy(agent, r),
                         !.replies = Append(@, r)]
        ELSE [net EXCEPT
                !.calls = [SubSeq(net.calls, 1, Len(net.calls) - 1) EXCEPT
                            ![Len(net.calls) - 1].answer = AnswerOf(r)],
                !.invoked = @ \o InvokedBy(agent, r)]

\* the innermost call returns: it sent nothing, or its send_message has come
\* back.  Its reply is the answer to the call that was waiting for it, or to
\* the user
ReturnReply ==
    /\ pc = "pair"
    /\ net.stage = "running"
    /\ Innermost.answer.kind # "pending"
    /\ Returning(Innermost.agent, CallOutcome(Innermost))
    /\ UNCHANGED <<bridge, environ, pc, msg, world, out, handled, mcp, fmt, threads,
                   registry>>

NextPair == UserSends \/ SendMessage \/ ReturnReply

SpecPair == InitPair /\ [][NextPair]_vars

---------------------------------------------------------------------------
(* Properties of the bridge (checked under Spec)                           *)

\* the state after handle_message has run on a text message
Replied == pc = "replied" /\ msg.content_type = "text"

\* the MESSAGE field of an envelope as a reader of the three labelled lines
\* takes it: what follows the label on the last line that starts with
\* MESSAGE:, without the whitespace around it
RECURSIVE LastMessageLine(_, _)
LastMessageLine(lines, found) ==
    IF Len(lines) = 0 THEN found
    ELSE LastMessageLine(Tail(lines),
            IF StartsWith(Head(lines), "MESSAGE:")
            THEN Strip(SliceFrom(Head(lines), 8)) ELSE found)

MessageField(text) == LastMessageLine(Split(Strip(text), "\n"), "")

\* the envelopes FROM f / TO t / MESSAGE b whose body b starts with the marker
MarkedEnvelopes ==
    {SimpleMessage(f, t, b) : f \in Senders, t \in Addressees,
                              b \in {x \in Bodies : StartsWith(x, "Response to ")}}

\* C1 as stated: for every envelope FROM/TO/MESSAGE whose message body starts
\* with the reply marker "Response to ", handle_message does not invoke the
\* agent-logic callback, whatever the sender, the addressee and the rest of
\* the body
C1_MarkedBodyNeverInvokesLogic ==
    (Replied /\ msg.text \in MarkedEnvelopes) => out.log.logic = <<>>

\* C1 as amended: for every text taken as an inbound envelope (it starts with
\* FROM: and holds TO: and MESSAGE:) whose MESSAGE field, trimmed of the
\* whitespace around it, starts with the reply marker, handle_message does not
\* invoke the agent-logic callback
C1_TrimmedMarkedBodyNeverInvokesLogic ==
    (/\ Replied
     /\ StartsWith(msg.text, "FROM:")
     /\ Contains(msg.text, "TO:")
     /\ StartsWith(MessageField(msg.text), "Response to "))
        => out.log.logic = <<>>

\* C1 witness: a reply envelope from b2 to zed that echoes another id has been
\* handled and the callback was not invoked
C1_Witness ==
    /\ Replied
    /\ msg.text = SimpleMessage("b2", "zed", "Response to al: so  long")
    /\ out.route = "inbound"
    /\ out.log.logic = <<>>
    /\ ~out.raised

\* does the text t occur in the reply?
ReplySays(t) == Contains(out.reply.text, t)

\* the kinds of the events of the tool query that handle_message ran
QueryEvents == IF out.log.queries = <<>> THEN <<>> ELSE out.log.queries[1].events

\* C2: whatever the message and whatever the collaborators do (the callback
\* raises, the registry lookup fails, the delivery fails, the tool query
\* fails), handle_message returns a reply message whose text tells the
\* failure, and no exception leaves it
C2_FailuresBecomeReplies ==
    pc = "replied" =>
        /\ ~out.raised
        /\ out.reply.role = "agent"
        /\ (out.log.logic # <<>> /\ world.logic.raises) => ReplySays(world.logic.value)
        /\ (out.log.sent # <<>> /\ world.delivery.kind = "raise")
                => ReplySays(world.delivery.text)
        /\ (out.route = "outbound" /\ out.log.http # <<>> /\ out.log.sent = <<>>)
                => ReplySays("not found")
        /\ (out.route = "mcp" /\ out.log.http # <<>> /\ out.log.queries = <<>>)
                => (ReplySays("not found") \/ ReplySays("No server URL"))
        /\ (out.log.queries # <<>> /\ QueryEvents = <<>>)
                => ReplySays("Failed to connect to MCP server")
        /\ \A i \in 1..Len(QueryEvents) :
                QueryEvents[i].failed =>
                    /\ ReplySays("MCP error: ")
                    /\ QueryEvents[i].ev = "tool" => ReplySays(world.script.tool.text)

\* C2 witness: the callback raised while an inbound envelope was handled and
\* the reply tells so
C2_Witness ==
    /\ pc = "replied"
    /\ out.route = "inbound"
    /\ world.logic.raises
    /\ out.log.logic # <<>>
    /\ ~out.raised
    /\ out.reply.text
        = "[alice] Error processing message from agent: " \o world.logic.value

\* the lookup of an id resolves nothing: there is no registry, or it fails,
\* answers other than 200 or answers without a URL
Unresolvable ==
    \/ bridge.registry_url = None
    \/ world.lookup.kind \in {"status", "neterr", "badjson"}
    \/ world.lookup.agent_url = None

\* C3: for every outbound message "@<id> <text>" whose id the lookup cannot
\* resolve and the local table does not hold, the reply text is the sender
\* tag followed by exactly "Agent <id> not found", and no envelope is delivered
C3_UnresolvedAgentNotFound ==
    \A id \in {"bob", "zed", ""}, t \in {"hello", " two", "x"} :
        (Replied /\ msg.text = "@" \o id \o " " \o t /\ Unresolvable)
            => /\ out.reply.text
                    = "[" \o bridge.agent_id \o "] Agent " \o id \o " not found"
               /\ out.log.sent = <<>>
               /\ ~out.raised

\* C3 witness: the registry was asked for bob, the request failed, and the
\* reply says that bob was not found
C3_Witness ==
    /\ Replied
    /\ msg.text = "@bob hello"
    /\ world.lookup.kind = "neterr"
    /\ out.log.http = <<"http://reg/lookup/bob">>
    /\ out.log.sent = <<>>
    /\ out.reply.text = "[alice] Agent bob not found"

\* the tool queries whose provider is smithery
SmitheryTexts == {"#smithery:foo query", "#Smithery:foo q", "#SMITHERY:bar q"}

\* no Smithery API key is configured: none was given to the bridge and the
\* environment holds none
NoSmitheryKey == bridge.smithery_api_key = None /\ environ = None

\* C7: with no Smithery API key configured, resolving a server of provider
\* smithery gives no descriptor and no URL, asks neither the Smithery registry
\* nor a deployment URL, and the tool query opens no tool session
C7_NoKeyNoSmitheryLookup ==
    (Replied /\ msg.text \in SmitheryTexts /\ NoSmitheryKey)
        => /\ out.log.http = <<>>
           /\ out.log.queries = <<>>
           /\ ~out.raised
           /\ bridge.mcp_registry_url # None
                => (ReplySays("not found in") /\ ~ReplySays("https://"))

\* C7 witness: the Smithery registry would have answered with a deployment
\* URL, no key is configured, and nothing was asked or opened
C7_Witness ==
    /\ Replied
    /\ msg.text = "#smithery:foo query"
    /\ NoSmitheryKey
    /\ bridge.mcp_registry_url # None
    /\ world.smithery.kind = "200"
    /\ world.smithery.deploymentUrl # None
    /\ out.log.http = <<>>
    /\ out.log.queries = <<>>

\* C8: the reply to "#smithery:<server> <query>" handled with no Smithery API
\* key configured names the missing API key as the reason
C8_ReplyNamesMissingKey ==
    (Replied /\ msg.text \in SmitheryTexts /\ NoSmitheryKey
        /\ bridge.mcp_registry_url # None)
        => \/ Contains(Lower(out.reply.text), "api key")
           \/ Contains(Lower(out.reply.text), "api_key")
           \/ Contains(Lower(out.reply.text), "apikey")

\* the text holds the three labels of an envelope
HoldsLabels(text) ==
    Contains(text, "FROM:") /\ Contains(text, "TO:") /\ Contains(text, "MESSAGE:")

\* C9 as stated: every text that holds the three labels FROM:, TO: and MESSAGE:
\* is taken as an inbound agent envelope, whatever its first characters and
\* whatever the order of the three lines
C9_LabelsMakeAnEnvelope ==
    (Replied /\ HoldsLabels(msg.text)) => out.route = "inbound"

\* C9 as amended: a text is taken as an inbound agent envelope, before any
\* sigil is looked at, exactly when it starts with FROM: and holds TO: and
\* MESSAGE: (in either order after it); a text that holds the three labels and
\* starts otherwise goes where its first character sends it
C9_EnvelopeStartsWithFrom ==
    Replied =>
        /\ out.route = "inbound" <=> (StartsWith(msg.text, "FROM:") /\ HoldsLabels(msg.text))
        /\ (HoldsLabels(msg.text) /\ StartsWith(msg.text, "@")) => out.route = "outbound"
        /\ (HoldsLabels(msg.text) /\ StartsWith(msg.text, "#")) => out.route = "mcp"
        /\ (HoldsLabels(msg.text) /\ StartsWith(msg.text, "/")) => out.route = "command"

\* C9 witness: an envelope whose MESSAGE line comes before its TO line has been
\* handled as an inbound envelope
C9_Witness ==
    /\ Replied
    /\ msg.text = "FROM: bob\nMESSAGE: hello\nTO: alice"
    /\ out.route = "inbound"
    /\ out.log.logic = <<<<"hello", "c1">>>>

\* C10 as stated: a reply envelope from S whose body is
\* "Response to <own id>: <t>" is answered with the text "[S] <t>"
C10_ReplyShownAsSenderAndText ==
    \A S \in Senders, to \in Addressees, t \in ReplyTexts :
        (Replied /\ msg.text
            = SimpleMessage(S, to, "Response to " \o bridge.agent_id \o ": " \o t))
            => out.reply.text = "[" \o S \o "] " \o t

\* C10 as amended: a reply envelope from S whose body is
\* "Response to <own id>: <t>", t being one line, is answered with the text
\* "[<own id>] [S] <t>", t without the whitespace at its end; the callback is
\* not invoked
C10_ReplyShownAfterOwnTag ==
    \A S \in Senders, to \in Addressees, t \in ReplyTexts :
        (Replied /\ msg.text
            = SimpleMessage(S, to, "Response to " \o bridge.agent_id \o ": " \o t))
            => /\ out.reply.text
                    = "[" \o bridge.agent_id \o "] [" \o S \o "] " \o RStrip(t)
               /\ out.log.logic = <<>>

\* C10 witness: alice has answered bob's reply "Response to alice: hi"
C10_Witness ==
    /\ Replied
    /\ msg.text = "FROM: bob\nTO: alice\nMESSAGE: Response to alice: hi"
    /\ bridge.agent_id = "alice"
    /\ out.reply.text = "[alice] [bob] hi"

\* the field of an envelope that a label names, as a reader of the labelled
\* lines takes it: what follows the label on the last line that starts with
\* it, without the whitespace around it
RECURSIVE LastLabelled(_, _, _)
LastLabelled(lines, label, found) ==
    IF Len(lines) = 0 THEN found
    ELSE LastLabelled(Tail(lines), label,
            IF StartsWith(Head(lines), label)
            THEN Strip(SliceFrom(Head(lines), Len(label))) ELSE found)

FromField(text) == LastLabelled(Split(Strip(text), "\n"), "FROM:", "")

\* the text is taken as an inbound envelope and its MESSAGE field is no reply
UnmarkedEnvelope ==
    /\ Replied
    /\ StartsWith(msg.text, "FROM:")
    /\ HoldsLabels(msg.text)
    /\ ~StartsWith(MessageField(msg.text), "Response to ")

\* C11 as stated: for every inbound envelope from S whose body does not start
\* with the reply marker, the callback is invoked exactly once on the body and
\* the reply is an envelope FROM/TO/MESSAGE whose message body begins with
\* "Response to S: " followed by the callback's result
C11_ReplyIsEnvelopeToSender ==
    (UnmarkedEnvelope /\ ~world.logic.raises) =>
        /\ out.log.logic = <<<<MessageField(msg.text), msg.conversation_id>>>>
        /\ HoldsLabels(out.reply.text)
        /\ StartsWith(MessageField(out.reply.text),
                "Response to " \o FromField(msg.text) \o ": " \o world.logic.value)

\* C11 as amended: for every inbound envelope from S whose MESSAGE field does
\* not start with the reply marker, the callback is invoked exactly once, on
\* that field, and the reply is a message (not laid out as an envelope) whose
\* text is the bridge's own tag followed by "Response to S: " and the
\* callback's result; where the callback raises, the text is the tag followed
\* by "Error processing message from agent: " and the error
C11_ReplyTextMarkedForSender ==
    UnmarkedEnvelope =>
        /\ out.log.logic = <<<<MessageField(msg.text), msg.conversation_id>>>>
        /\ ~out.raised
        /\ ~StartsWith(out.reply.text, "FROM:")
        /\ out.reply.text =
                "[" \o bridge.agent_id \o "] "
                \o (IF world.logic.raises
                    THEN "Error processing message from agent: " \o world.logic.value
                    ELSE "Response to " \o FromField(msg.text) \o ": "
                            \o world.logic.value)

\* C11 witness: alice has handed bob's "hello" to the callback and answers with
\* its result, marked as a response to bob
C11_Witness ==
    /\ Replied
    /\ msg.text = "FROM: bob\nTO: alice\nMESSAGE: hello"
    /\ out.log.logic = <<<<"hello", "c1">>>>
    /\ world.logic.value = "fine"
    /\ out.reply.text = "[alice] Response to bob: fine"

\* the text is no envelope and starts with none of the sigils '@', '#', '/'
PlainTurn ==
    /\ Replied
    /\ ~(StartsWith(msg.text, "FROM:") /\ HoldsLabels(msg.text))
    /\ ~StartsWith(msg.text, "@")
    /\ ~StartsWith(msg.text, "#")
    /\ ~StartsWith(msg.text, "/")

\* C12: for every text that is no envelope and starts with none of '@', '#',
\* '/', the callback is invoked exactly once, with the text as it came and the
\* conversation identifier of the message (the one the reply carries, which
\* is the message's own when it has one); nothing else is called, and the
\* reply text is the callback's return value after the sender tag
C12_PlainTurnForwardedVerbatim ==
    PlainTurn =>
        /\ out.log.logic = <<<<msg.text, out.reply.conversation_id>>>>
        /\ msg.conversation_id # None => out.reply.conversation_id = msg.conversation_id
        /\ out.log.http = <<>> /\ out.log.sent = <<>> /\ out.log.queries = <<>>
        /\ ~out.raised
        /\ ~world.logic.raises
                => out.reply.text = "[" \o bridge.agent_id \o "] " \o world.logic.value

\* C12 witness: a text that holds the three labels behind a space went to the
\* callback unchanged, space included
C12_Witness ==
    /\ Replied
    /\ msg.text = " FROM: bob\nTO: alice\nMESSAGE: hello"
    /\ out.log.logic = <<<<" FROM: bob\nTO: alice\nMESSAGE: hello", "c1">>>>
    /\ out.reply.text = "[alice] fine"

\* the characters of an '@' text between the sigil and its first space
TargetOf(text) == SubSeq(text, 2, FindChar(text, " ") - 1)

\* everything after the first space of the text
AfterFirstSpace(text) == SliceFrom(text, FindChar(text, " "))

\* C13: for every text that starts with '@': if it holds no space the reply
\* is the invalid-format error and neither a lookup nor a delivery happens;
\* otherwise the id looked up, addressed and reported is the characters
\* between '@' and the first space, and the body sent is everything after the
\* first space
C13_OutboundSplitAtFirstSpace ==
    (Replied /\ StartsWith(msg.text, "@")) =>
        /\ ~out.raised
        /\ out.log.logic = <<>>
        /\ ~Contains(msg.text, " ") =>
                /\ out.reply.text
                    = "[" \o bridge.agent_id \o "] Invalid format. Use '@agent_id message'"
                /\ out.log.http = <<>>
                /\ out.log.sent = <<>>
        /\ Contains(msg.text, " ") =>
                /\ out.log.http =
                        IF bridge.registry_url = None THEN <<>>
                        ELSE <<bridge.registry_url \o "/lookup/" \o TargetOf(msg.text)>>
                /\ out.log.sent = <<>> =>
                        out.reply.text = "[" \o bridge.agent_id \o "] Agent "
                                            \o TargetOf(msg.text) \o " not found"
                /\ out.log.sent # <<>> =>
                        /\ Len(out.log.sent) = 1
                        /\ out.log.sent[1].text =
                                "FROM: " \o bridge.agent_id \o "\nTO: " \o TargetOf(msg.text)
                                    \o "\nMESSAGE: " \o AfterFirstSpace(msg.text)

\* C13 witness: "@test_agent hi there" was sent to test_agent with the body
\* "hi there"
C13_Witness ==
    /\ Replied
    /\ msg.text = "@test_agent hi there"
    /\ Len(out.log.sent) = 1
    /\ out.log.sent[1].text = "FROM: alice\nTO: test_agent\nMESSAGE: hi there"

\* the word of a '/' text: what stands between the sigil and the first space
\* (or the end of the text)
CommandWord(text) ==
    IF Contains(text, " ") THEN SubSeq(text, 2, FindChar(text, " ") - 1)
    ELSE SliceFrom(text, 1)

\* the reply text without the sender tag
Untagged == SliceFrom(out.reply.text, Len("[" \o bridge.agent_id \o "] "))

\* C14: for every text that starts with '/', the reply is decided by the word
\* between '/' and the first space: ping gives "[<agent_id>] Pong!", help the
\* help text, status the status line, every other word (the empty one too)
\* the "Unknown command" usage reply; no command invokes the callback or
\* makes a network call
C14_CommandDecidedByWord ==
    (Replied /\ StartsWith(msg.text, "/")) =>
        /\ ~out.raised
        /\ out.log = [logic |-> <<>>, http |-> <<>>, sent |-> <<>>, queries |-> <<>>]
        /\ StartsWith(out.reply.text, "[" \o bridge.agent_id \o "] ")
        /\ CASE CommandWord(msg.text) = "ping" ->
                    out.reply.text = "[" \o bridge.agent_id \o "] Pong!"
             [] CommandWord(msg.text) = "help" ->
                    /\ StartsWith(Untagged, "Available commands:\n/help - Show this help\n")
                    /\ Contains(Untagged, "\n/ping - ")
                    /\ Contains(Untagged, "\n/status - ")
             [] CommandWord(msg.text) = "status" ->
                    Untagged =
                        "Agent: " \o bridge.agent_id \o ", Status: Running"
                        \o (IF bridge.registry_url = None THEN ""
                            ELSE ", Registry: " \o bridge.registry_url)
                        \o (IF bridge.mcp_registry_url = None THEN ""
                            ELSE ", MCP Registry: " \o bridge.mcp_registry_url)
             [] OTHER ->
                    Untagged = "Unknown command: " \o CommandWord(msg.text)
                                \o ". Use /help for available commands"

\* C14 witness: "/ping now" was answered "Pong!" by a bridge that asked nobody
C14_Witness ==
    /\ Replied
    /\ msg.text = "/ping now"
    /\ out.reply.text = "[alice] Pong!"
    /\ out.log.logic = <<>>
    /\ out.log.http = <<>>

\* the parts of a '#' text: the provider stands between the sigil and the
\* first ':', the server name between that ':' and the next space, the query
\* after that space
ProviderOf(text) == SubSeq(text, 2, FindChar(text, ":") - 1)

AfterFirstColon(text) == SliceFrom(text, FindChar(text, ":"))

ServerNameOf(text) ==
    SubSeq(AfterFirstColon(text), 1, FindChar(AfterFirstColon(text), " ") - 1)

QueryOf(text) ==
    SliceFrom(AfterFirstColon(text), FindChar(AfterFirstColon(text), " "))

\* the text has the form "#<provider>:<serverName> <query>"
ToolQueryForm(text) == Contains(text, ":") /\ Contains(AfterFirstColon(text), " ")

\* C15: for every text that starts with '#': if it has not the form
\* "#<provider>:<serverName> <query>" (no ':' after the sigil, or no space
\* after the server name) the reply is the invalid-format error and neither a
\* registry lookup nor a tool session happens; otherwise the provider is the
\* text between '#' and the first ':', the server name the text up to the
\* next space and the query the remainder: these are the provider asked, the
\* name looked up and reported, and the query run
C15_ToolQueryParsed ==
    (Replied /\ StartsWith(msg.text, "#")) =>
        /\ ~out.raised
        /\ out.log.logic = <<>> /\ out.log.sent = <<>>
        /\ ~ToolQueryForm(msg.text) =>
                /\ Untagged
                    = "(x) Invalid MCP message format. Use: #registry:server-name query"
                /\ out.log.http = <<>>
                /\ out.log.queries = <<>>
        /\ (ToolQueryForm(msg.text) /\ bridge.mcp_registry_url = None) =>
                /\ Untagged = "(x) MCP registry URL not configured"
                /\ out.log.http = <<>>
                /\ out.log.queries = <<>>
        /\ (ToolQueryForm(msg.text) /\ bridge.mcp_registry_url # None) =>
                /\ out.log.http # <<>> =>
                        \/ /\ Lower(ProviderOf(msg.text)) = "nanda"
                           /\ out.log.http = <<bridge.mcp_registry_url \o "/mcp_servers/"
                                                \o ServerNameOf(msg.text)>>
                        \/ /\ Lower(ProviderOf(msg.text)) = "smithery"
                           /\ out.log.http = <<"https://registry.smithery.ai/servers/"
                                                \o ServerNameOf(msg.text)>>
                /\ out.log.queries = <<>> =>
                        \/ Untagged = "(x) MCP server '" \o ServerNameOf(msg.text)
                                        \o "' not found in " \o ProviderOf(msg.text)
                                        \o " registry"
                        \/ Untagged = "(x) No server URL found for '"
                                        \o ServerNameOf(msg.text) \o "'"
                /\ out.log.queries # <<>> =>
                        /\ Len(out.log.queries) = 1
                        /\ out.log.queries[1].query = QueryOf(msg.text)
                        /\ StartsWith(Untagged,
                                "(tool) " \o Title(ProviderOf(msg.text)) \o " MCP ["
                                    \o ServerNameOf(msg.text) \o "]: ")

\* C15 witness: "#nanda:a:b c d" asked the nanda registry for the server a:b
\* and ran the query "c d"
C15_Witness ==
    /\ Replied
    /\ msg.text = "#nanda:a:b c d"
    /\ out.log.http = <<"http://mcpreg/mcp_servers/a:b">>
    /\ Len(out.log.queries) = 1
    /\ out.log.queries[1].query = "c d"

\* the URL the lookup of the target of an '@' text resolves to: the one the
\* registry answers with when it answers 200, else the one of the local table;
\* None when there is none
ResolvedUrl ==
    IF bridge.registry_url # None /\ world.lookup.kind = "200"
        THEN world.lookup.agent_url
    ELSE IF TargetOf(msg.text) = "test_agent" THEN "http://localhost:6000"
    ELSE None

\* C16: for an outbound message whose target resolves to an endpoint, exactly
\* one envelope "FROM: <self>\nTO: <target>\nMESSAGE: <body>" is delivered, to
\* the /a2a path of that endpoint, and the local reply (after the bridge's
\* tag) is the remote reply text tagged "[<target>] ", or the confirmation
\* "Message sent to <target>: <body>" when the remote returns nothing, or an
\* error text when the delivery fails
C16_ResolvedTargetGetsOneEnvelope ==
    (/\ Replied
     /\ StartsWith(msg.text, "@")
     /\ Contains(msg.text, " ")
     /\ ResolvedUrl # None) =>
        /\ ~out.raised
        /\ Len(out.log.sent) = 1
        /\ out.log.sent[1].text =
                "FROM: " \o bridge.agent_id \o "\nTO: " \o TargetOf(msg.text)
                    \o "\nMESSAGE: " \o AfterFirstSpace(msg.text)
        /\ out.log.sent[1].url \in {ResolvedUrl, ResolvedUrl \o "/a2a"}
        /\ EndsWith(out.log.sent[1].url, "/a2a")
        /\ out.log.sent[1].conversation_id = out.reply.conversation_id
        /\ Untagged =
                CASE world.delivery.kind \in {"parts", "noparts"} ->
                        "[" \o TargetOf(msg.text) \o "] " \o world.delivery.text
                  [] world.delivery.kind = "none" ->
                        "Message sent to " \o TargetOf(msg.text) \o ": "
                            \o AfterFirstSpace(msg.text)
                  [] world.delivery.kind = "raise" ->
                        "(x) Error sending to " \o TargetOf(msg.text) \o ": "
                            \o world.delivery.text

\* C16 witness: bob, whom the registry resolved, got one envelope and his
\* answer is shown behind his tag
C16_Witness ==
    /\ Replied
    /\ msg.text = "@bob hello"
    /\ world.lookup = [kind |-> "200", agent_url |-> "http://bob"]
    /\ world.delivery.kind = "parts"
    /\ Len(out.log.sent) = 1
    /\ out.log.sent[1].url = "http://bob/a2a"
    /\ out.log.sent[1].text = "FROM: alice\nTO: bob\nMESSAGE: hello"
    /\ out.reply.text = "[alice] [bob] [bob] Response to alice: fine"

\* C17: when opening the session, the protocol handshake or the tool listing
\* fails, execute_query returns the connection-error text without raising,
\* and makes no model request and no tool call
C17_FailedConnectReturnsErrorText ==
    (/\ Replied
     /\ out.log.queries # <<>>
     /\ world.script.connect.kind \in {"transport", "handshake", "list"}) =>
        /\ ~out.raised
        /\ out.log.queries[1].pc = "done"
        /\ out.log.queries[1].result = ConnectFailed
        /\ out.log.queries[1].events = <<>>
        /\ out.log.queries[1].messages = <<>>
        /\ ReplySays(ConnectFailed)

\* C17 witness: a query whose handshake failed has returned the
\* connection-error text
C17_Witness ==
    /\ Replied
    /\ out.log.queries # <<>>
    /\ world.script.connect.kind = "handshake"
    /\ out.log.queries[1].session = "open"
    /\ out.log.queries[1].result = ConnectFailed
    /\ out.log.queries[1].events = <<>>
    /\ ~out.raised

\* the tool query that handle_message ran has failed: no session came of the
\* connection, or a model request or a tool call raised
OrchestratorFailed ==
    /\ out.log.queries # <<>>
    /\ \/ QueryEvents = <<>>
       \/ \E i \in 1..Len(QueryEvents) : QueryEvents[i].failed

\* C36 as stated: a tool-query reply carries the success header
\* "(tool) <Provider> MCP [<server>]: " only when the orchestrator completed
\* the query; when the orchestrator fails (connection failure, tool-call
\* error, model error) the reply is an error reply that starts with the
\* error marker after the sender tag and does not carry the success header
C36_SuccessHeaderOnlyOnSuccess ==
    (Replied /\ out.route = "mcp" /\ OrchestratorFailed) =>
        /\ StartsWith(out.reply.text, "[" \o bridge.agent_id \o "] (x)")
        /\ ~ReplySays("(tool) ")

\* C18 as stated: when a tool query has returned to its caller, on the success
\* path and on every error path, every transport and session opened for that
\* query has been released: nothing is left entered on the client's exit
\* stack and no session is held
C18_QueryReleasesWhatItOpened ==
    (pc = "replied" /\ out.log.queries # <<>>) =>
        /\ out.log.queries[1].exit_stack = <<>>
        /\ out.log.queries[1].session = None

\* an '@' text with a target and a body, handled by a bridge that has a
\* registry to ask
OutboundWithRegistry ==
    /\ Replied
    /\ StartsWith(msg.text, "@")
    /\ Contains(msg.text, " ")
    /\ Truthy(bridge.registry_url)

\* what the static local table holds for an id: its URL, or None
LocalUrlOf(agent_id) ==
    IF agent_id = "test_agent" THEN "http://localhost:6000" ELSE None

\* what the resolution of the target came to, as the delivery shows it: the
\* target was resolved to url (one envelope went to its /a2a path), or, url
\* being None, was absent (nothing was sent and the reply says not found)
ResolvedTo(url) ==
    IF url = None
    THEN /\ out.log.sent = <<>>
         /\ Untagged = "Agent " \o TargetOf(msg.text) \o " not found"
    ELSE /\ Len(out.log.sent) = 1
         /\ out.log.sent[1].url \in {url, url \o "/a2a"}
         /\ EndsWith(out.log.sent[1].url, "/a2a")

\* C21 as stated: agent resolution returns the registry's agent_url whenever
\* the lookup answers 200 (absent when the answer holds none), and falls back
\* to the static local table only when the lookup answers non-200 or fails at
\* the network level
C21_A200AnswerDecidesResolution ==
    OutboundWithRegistry =>
        /\ out.log.http = <<bridge.registry_url \o "/lookup/" \o TargetOf(msg.text)>>
        /\ ResolvedTo(IF world.lookup.kind \in {"200", "badjson"}
                      THEN world.lookup.agent_url
                      ELSE LocalUrlOf(TargetOf(msg.text)))

\* C21 as amended: agent resolution returns the registry's agent_url when the
\* lookup answers 200 with a body that is read as JSON; when the lookup answers
\* non-200, fails at the network level, or answers 200 with a body that cannot
\* be read, it falls back to the static local table, returning that table's URL
\* when the id is in it and absent otherwise
C21_ReadableAnswerDecidesResolution ==
    OutboundWithRegistry =>
        /\ out.log.http = <<bridge.registry_url \o "/lookup/" \o TargetOf(msg.text)>>
        /\ ResolvedTo(IF world.lookup.kind = "200"
                      THEN world.lookup.agent_url
                      ELSE LocalUrlOf(TargetOf(msg.text)))

\* C21 witness: the registry answered 200 with a body that is not JSON, and
\* the envelope for test_agent went to the URL of the local table
C21_Witness ==
    /\ OutboundWithRegistry
    /\ msg.text = "@test_agent hi there"
    /\ world.lookup.kind = "badjson"
    /\ Len(out.log.sent) = 1
    /\ out.log.sent[1].url = "http://localhost:6000/a2a"

\* a well-formed tool query for a server of provider nanda, handled by a
\* bridge that has a tool registry to ask
NandaQuery ==
    /\ Replied
    /\ StartsWith(msg.text, "#")
    /\ ToolQueryForm(msg.text)
    /\ Lower(ProviderOf(msg.text)) = "nanda"
    /\ Truthy(bridge.mcp_registry_url)

\* the serverUrl of a descriptor made from the registry's answer: server_url
\* or, when that is missing, endpoint
NandaServerUrl ==
    IF Truthy(world.nanda.server_url) THEN world.nanda.server_url
    ELSE world.nanda.endpoint

\* the resolution gave a descriptor with server URL url (None: with none):
\* the tool session was opened against url, or the reply tells that there is
\* no URL
DescriptorWith(url) ==
    IF Truthy(url)
    THEN /\ Len(out.log.queries) = 1
         /\ out.log.queries[1].server_url = url
         /\ out.log.queries[1].query = QueryOf(msg.text)
    ELSE /\ out.log.queries = <<>>
         /\ Untagged = "(x) No server URL found for '" \o ServerNameOf(msg.text) \o "'"

\* the resolution gave not-found: the reply is the not-found error and no
\* session was opened
NotFoundReply ==
    /\ out.log.queries = <<>>
    /\ Untagged = "(x) MCP server '" \o ServerNameOf(msg.text) \o "' not found in "
                        \o ProviderOf(msg.text) \o " registry"

\* C22 as stated: resolving a server with provider nanda returns a descriptor
\* exactly when the registry answers 200, whatever the body of the answer,
\* with serverUrl taken from server_url or, when that is missing, from
\* endpoint; a non-200 answer or a failed request yields not-found and the
\* tool query replies with a not-found error without opening a session
C22_DescriptorExactlyOn200 ==
    NandaQuery =>
        IF world.nanda.kind \in {"200", "badjson"}
        THEN DescriptorWith(NandaServerUrl)
        ELSE NotFoundReply

\* C22 as amended: resolving a server with provider nanda returns a descriptor
\* exactly when the registry answers 200 with a body that is read as JSON,
\* with serverUrl taken from server_url or, when that is missing, from
\* endpoint; a non-200 answer, a failed request or a 200 answer whose body
\* cannot be read yields not-found and the tool query replies with a
\* not-found error without opening a session
C22_DescriptorExactlyOnReadable200 ==
    NandaQuery =>
        /\ out.log.http =
                <<bridge.mcp_registry_url \o "/mcp_servers/" \o ServerNameOf(msg.text)>>
        /\ IF world.nanda.kind = "200"
           THEN DescriptorWith(NandaServerUrl)
           ELSE NotFoundReply

\* C22 witness: the registry answered 200 with an endpoint and no server_url,
\* and the tool session was opened against the endpoint
C22_Witness ==
    /\ NandaQuery
    /\ msg.text = "#nanda:weather what is it"
    /\ world.nanda = [kind |-> "200", server_url |-> None, endpoint |-> "https://y/mcp"]
    /\ Len(out.log.queries) = 1
    /\ out.log.queries[1].server_url = "https://y/mcp"

\* a well-formed tool query for a server of provider smithery, handled by a
\* bridge that has a tool registry URL, and resolved by a registry client
\* that holds a key, to which the Smithery registry answered 200
SmitheryAnswered ==
    /\ Replied
    /\ StartsWith(msg.text, "#")
    /\ ToolQueryForm(msg.text)
    /\ Lower(ProviderOf(msg.text)) = "smithery"
    /\ Truthy(bridge.mcp_registry_url)
    /\ out.log.http = <<SmitheryRegistry \o "/servers/" \o ServerNameOf(msg.text)>>
    /\ world.smithery.kind = "200"

\* the places of the connections of type ty that have a deployment URL
UrlPlaces(connections, ty) ==
    {i \in 1..Len(connections) :
        connections[i].type = ty /\ Truthy(connections[i].deploymentUrl)}

FirstPlace(places) == CHOOSE i \in places : \A j \in places : i <= j

\* the order of preference: the first http-typed connection's deployment
\* URL, else the first stdio-typed connection's, else the top-level one
PreferredUrl(info) ==
    IF UrlPlaces(info.connections, "http") # {}
        THEN info.connections[FirstPlace(UrlPlaces(info.connections, "http"))].deploymentUrl
    ELSE IF UrlPlaces(info.connections, "stdio") # {}
        THEN info.connections[FirstPlace(UrlPlaces(info.connections, "stdio"))].deploymentUrl
    ELSE info.deploymentUrl

\* url, as it is or with the API key appended as a query parameter
WithOrWithoutKey(url) ==
    {url} \cup {url \o sep \o "api_key=" \o k : sep \in {"?", "&"},
                                                 k \in {bridge.smithery_api_key, environ}}

\* C23 as stated: for every Smithery server-info response, the selected URL is
\* the deployment URL of the first http-typed connection when any http-typed
\* connection has one (wherever it stands in the list relative to stdio
\* connections), else the deployment URL of the first stdio-typed connection,
\* else the top-level deployment URL; the tool session is opened against it
C23_HttpConnectionPreferred ==
    (SmitheryAnswered /\ Truthy(PreferredUrl(world.smithery))) =>
        /\ Len(out.log.queries) = 1
        /\ out.log.queries[1].server_url \in WithOrWithoutKey(PreferredUrl(world.smithery))

\* C24 as stated: for every successful Smithery resolution, the URL the tool
\* session is opened against carries both the API key and a base64-encoded
\* JSON configuration blob as query parameters
C24_SessionUrlCarriesKeyAndConfig ==
    (SmitheryAnswered /\ out.log.queries # <<>>) =>
        /\ \E sep \in {"?", "&"} : \E k \in {bridge.smithery_api_key, environ} :
                Contains(out.log.queries[1].server_url, sep \o "api_key=" \o k)
        /\ \E sep \in {"?", "&"} :
                Contains(out.log.queries[1].server_url, sep \o "config=")

\* C25 as stated: the Smithery API key given explicitly to the bridge at
\* construction is the key used for Smithery resolution, the environment
\* value only when no explicit key was given; in particular, with an explicit
\* key and no environment key, Smithery resolution does not fail for lack of
\* a key: the Smithery registry is asked
C25_ExplicitKeyUsedForResolution ==
    (/\ Replied
     /\ StartsWith(msg.text, "#")
     /\ ToolQueryForm(msg.text)
     /\ Lower(ProviderOf(msg.text)) = "smithery"
     /\ Truthy(bridge.mcp_registry_url)
     /\ Truthy(bridge.smithery_api_key)
     /\ environ = None) =>
        out.log.http = <<SmitheryRegistry \o "/servers/" \o ServerNameOf(msg.text)>>

\* C26 as stated: for a reply envelope from sender S whose body is
\* "Response to <X>: <t>", the text surfaced to the user (behind the tags of
\* the bridge and of the sender) is exactly <t>, trimmed as the MESSAGE field
\* is, for every echoed id X, including an X that differs from the receiving
\* agent's own id or has a different length
C26_EchoedIdStrippedWhateverItIs ==
    \A S \in Senders, to \in Addressees, X \in {"alice", "al", "alice22"},
       t \in ReplyTexts :
        (Replied /\ msg.text
            = SimpleMessage(S, to, "Response to " \o X \o ": " \o t))
            => Untagged = "[" \o S \o "] " \o Strip(t)

---------------------------------------------------------------------------
(* Properties of the tool-use loop (checked under SpecLoop)                *)

ModelEvents == EventsOf(mcp.events, "model")

EventKinds == [i \in 1..Len(mcp.events) |-> mcp.events[i].ev]

\* how many tool-invocation blocks a response holds
RECURSIVE ToolUses(_)
ToolUses(content) ==
    IF Len(content) = 0 THEN 0
    ELSE (IF Head(content).type = "tool_use" THEN 1 ELSE 0) + ToolUses(Tail(content))

\* the texts of the text blocks of a response
RECURSIVE TextsOf(_)
TextsOf(content) ==
    IF Len(content) = 0 THEN <<>>
    ELSE (IF Head(content).type = "text" THEN <<Head(content).text>> ELSE <<>>)
            \o TextsOf(Tail(content))

\* what execute_query returns for a text the formatter is given: the
\* formatter's rendering, or the error text where the formatter raises
Formatted(r) == IF r.raised THEN "(x) MCP error: " \o r.val ELSE r.val

\* the first response came and holds no tool-invocation block
FirstResponseAsksNoTool ==
    /\ Len(ModelEvents) >= 1
    /\ ~ModelEvents[1].failed
    /\ ToolUses(ModelEvents[1].content) = 0

\* C4 as stated: when the first response holds no tool-invocation block,
\* execute_query sends one model request, calls no tool, and returns the text
\* blocks of that response joined by newlines, formatted
C4_NoToolOneRoundJoinedText ==
    FirstResponseAsksNoTool =>
        /\ ModelRequests(mcp) = 1
        /\ ToolCalls(mcp) = 0
        /\ mcp.pc = "done" =>
            mcp.result \in
                {Formatted(_parse_result(
                    PyStr(Join(TextsOf(ModelEvents[1].content), "\n")))),
                 Formatted(_parse_result(
                    PyStr(Strip(Join(TextsOf(ModelEvents[1].content), "\n")))))}

\* C4 as amended: when the first response holds no tool-invocation block,
\* execute_query sends one model request, calls no tool, and returns the text
\* blocks of that response joined by newlines, trimmed and formatted, if the
\* response holds a text block, and "No response generated" if it holds none
C4_NoToolOneRoundTextOrPlaceholder ==
    FirstResponseAsksNoTool =>
        /\ ModelRequests(mcp) = 1
        /\ ToolCalls(mcp) = 0
        /\ mcp.pc = "done" =>
            mcp.result =
                IF TextsOf(ModelEvents[1].content) = <<>> THEN "No response generated"
                ELSE Formatted(_parse_result(
                        PyStr(Strip(Join(TextsOf(ModelEvents[1].content), "\n")))))

\* C4 witness: the query ended after one request whose response held two text
\* blocks, and returned them on two lines
C4_Witness ==
    /\ mcp.pc = "done"
    /\ EventKinds = <<"model">>
    /\ ToolUses(ModelEvents[1].content) = 0
    /\ mcp.result = "It is\nsunny"

\* C5: when the first response holds exactly one tool-invocation block and the
\* second holds none, execute_query sends exactly two model requests and calls
\* exactly one tool, between the two requests
C5_OneToolTwoRounds ==
    (/\ Len(ModelEvents) >= 2
     /\ ToolUses(ModelEvents[1].content) = 1
     /\ ~ModelEvents[2].failed
     /\ ToolUses(ModelEvents[2].content) = 0)
        => EventKinds = <<"model", "tool", "model">>

\* C5 witness: the query ended after a request, a tool call and a second
\* request, with the text of the second response
C5_Witness ==
    /\ mcp.pc = "done"
    /\ EventKinds = <<"model", "tool", "model">>
    /\ ToolUses(ModelEvents[1].content) = 1
    /\ mcp.messages[2].type = "tool_use"
    /\ mcp.messages[3].type = "tool_result"
    /\ mcp.result = "Sunny."

\* C6: the tool-use loop is bounded by a maximum-iteration guard: even when
\* every response holds a tool-invocation block, execute_query stops after a
\* fixed number of rounds (here any number up to MaxRounds) and asks the model
\* no further
C6_LoopHasIterationGuard ==
    mcp.pc = "next_request" => ModelRequests(mcp) < MaxRounds

\* the tool-use ids of the tool-invocation blocks of a response, in block order
RECURSIVE ToolIdsOf(_)
ToolIdsOf(content) ==
    IF Len(content) = 0 THEN <<>>
    ELSE (IF Head(content).type = "tool_use" THEN <<Head(content).id>> ELSE <<>>)
            \o ToolIdsOf(Tail(content))

\* the place in the events of the model request that follows the one at k,
\* one past the last event if none follows
NextModel(events, k) ==
    IF \E j \in (k + 1)..Len(events) : events[j].ev = "model"
    THEN CHOOSE j \in (k + 1)..Len(events) :
            /\ events[j].ev = "model"
            /\ \A i \in (k + 1)..(j - 1) : events[i].ev # "model"
    ELSE Len(events) + 1

\* the i-th tool call after the request at k ran the i-th tool-invocation
\* block of the response, with the turns of the calls before it in the
\* transcript; unless the call failed, its invocation and its result, with
\* its id, are two adjacent entries of the transcript next after those
CallInOrder(q, k, ids, i) ==
    /\ i <= Len(ids)
    /\ q.events[k + i].id = ids[i]
    /\ q.events[k + i].seen = q.events[k].seen + 2 * (i - 1)
    /\ IF q.events[k + i].failed
       THEN k + i = Len(q.events) /\ q.pc = "done"
       ELSE /\ Len(q.messages) >= q.events[k].seen + 2 * i
            /\ q.messages[q.events[k].seen + 2 * i - 1].type = "tool_use"
            /\ q.messages[q.events[k].seen + 2 * i - 1].role = "assistant"
            /\ q.messages[q.events[k].seen + 2 * i - 1].id = ids[i]
            /\ q.messages[q.events[k].seen + 2 * i].type = "tool_result"
            /\ q.messages[q.events[k].seen + 2 * i].role = "user"
            /\ q.messages[q.events[k].seen + 2 * i].id = ids[i]

\* the round of the request at k, n being the place of the next request: the
\* calls are those of the blocks in order, and the next request, if there is
\* one, was sent with the turns of all of them in the transcript
RoundInOrder(q, k, ids, n) ==
    /\ \A i \in 1..(n - k - 1) : CallInOrder(q, k, ids, i)
    /\ n <= Len(q.events) =>
            /\ n - k - 1 = Len(ids)
            /\ Len(ids) > 0
            /\ q.events[n].seen = q.events[k].seen + 2 * Len(ids)

\* C27: in the tool loop, for each tool-invocation block of a model response
\* one tool call is executed, in block order, and the invocation and its
\* result (carrying the same tool-use id) are appended to the transcript as
\* adjacent entries before the next model request is sent; no model request
\* of round n+1 starts before all results of round n are in the transcript
C27_RoundsSequentialCallsInBlockOrder ==
    \A k \in 1..Len(mcp.events) :
        mcp.events[k].ev = "model" =>
            RoundInOrder(mcp, k, ToolIdsOf(mcp.events[k].content),
                         NextModel(mcp.events, k))

\* C27 witness: a response held two tool-invocation blocks; both tools were
\* called in block order, the four turns are in the transcript, and the
\* second request was sent after them
C27_Witness ==
    /\ mcp.pc = "done"
    /\ EventKinds = <<"model", "tool", "tool", "model">>
    /\ mcp.events[2].id = "tu1"
    /\ mcp.events[3].id = "tu2"
    /\ mcp.events[4].seen = 5
    /\ Len(mcp.messages) = 5
    /\ mcp.messages[2].id = "tu1" /\ mcp.messages[3].id = "tu1"
    /\ mcp.messages[4].id = "tu2" /\ mcp.messages[5].id = "tu2"

\* C37: if a tool call raises during the tool loop, execute_query makes no
\* further tool call and no further model request for that query, and
\* returns a text starting with "(x) MCP error:" instead of raising
C37_FailedToolCallEndsQuery ==
    \A i \in 1..Len(mcp.events) :
        (mcp.events[i].ev = "tool" /\ mcp.events[i].failed) =>
            /\ i = Len(mcp.events)
            /\ mcp.pc = "done"
            /\ StartsWith(mcp.result, "(x) MCP error:")
            /\ Len(mcp.messages) = mcp.events[i].seen

\* C37 witness: the first tool call of a query succeeded, the model asked for
\* the tool again, that call raised, and the query returned the error text
C37_Witness ==
    /\ mcp.pc = "done"
    /\ Len(mcp.events) = 4
    /\ mcp.events[2].ev = "tool" /\ ~mcp.events[2].failed
    /\ mcp.events[3].ev = "model"
    /\ mcp.events[4].ev = "tool" /\ mcp.events[4].failed
    /\ mcp.result = "(x) MCP error: tool timeout"
    /\ Len(mcp.messages) = 3

\* a server that accepted the connection and listed no tool
EmptyCatalog == [kind |-> "ok", tools |-> <<>>]

\* C38: a tool server that connects successfully but reports an empty tool
\* catalog is handled exactly like a connection failure: execute_query
\* returns the connection-error text and sends no request to the model
C38_EmptyCatalogIsConnectFailure ==
    (world.script.connect = EmptyCatalog /\ mcp.pc # "connect") =>
        /\ mcp.pc = "done"
        /\ mcp.result = ConnectFailed
        /\ mcp.events = <<>>
        /\ mcp.messages = <<>>

\* C38 witness: the session was opened, the server listed no tool, and the
\* query returned the connection-error text without a request to the model
C38_Witness ==
    /\ world.script.connect = EmptyCatalog
    /\ mcp.pc = "done"
    /\ mcp.session = "open"
    /\ mcp.result = ConnectFailed
    /\ ModelRequests(mcp) = 0

---------------------------------------------------------------------------
(* Properties of the response formatter (checked under SpecFormat)         *)

\* C19 as stated: the response formatter never fails: for every input value
\* (any string, mapping, sequence or scalar, including a JSON object whose
\* "result" member is not a mapping or whose "artifacts" items are not
\* mappings) _parse_result returns a text and raises no exception
C19_ParseResultNeverRaises ==
    \A i \in 1..Len(fmt.results) : ~fmt.results[i].raised

\* is some part of s that starts with "{" and ends with "}" a JSON text?
HasJsonFragment(s) ==
    \E i \in 1..Len(s) : \E j \in i..Len(s) :
        /\ CharAt(s, i) = "{"
        /\ CharAt(s, j) = "}"
        /\ json_loads(SubSeq(s, i, j)).ok

\* a plain string: a text that is not JSON and holds no brace-delimited JSON
\* fragment
PlainString(x) == x.t = "str" /\ ~json_loads(x.s).ok /\ ~HasJsonFragment(x.s)

\* C20: for every plain string x that is not JSON and contains no
\* brace-delimited JSON fragment, formatting returns x unchanged, and so does
\* formatting what it returned: format(format(x)) = format(x) = x
C20_PlainStringUnchanged ==
    PlainString(fmt.response) =>
        \A i \in 1..Len(fmt.results) :
            /\ ~fmt.results[i].raised
            /\ fmt.results[i].val = fmt.response.s

\* C20 witness: a text with blanks around it has been formatted twice and
\* came back as it was both times
C20_Witness ==
    /\ fmt.response = PyStr(" padded ")
    /\ PlainString(fmt.response)
    /\ Len(fmt.results) = 2
    /\ fmt.results[1].val = " padded "
    /\ fmt.results[2].val = " padded "

\* a text that is JSON and not a JSON-RPC answer (an object with a "result"
\* member, whose first artifact's text is what gets formatted)
JsonText(x) ==
    /\ x.t = "str"
    /\ json_loads(x.s).ok
    /\ ~(json_loads(x.s).val.t = "dict" /\ DictHas(json_loads(x.s).val, "result"))

\* C32 as stated: for every string that parses as JSON, the formatter's
\* result equals the result of formatting the parsed value; in particular a
\* string holding a JSON array is rendered as an enumerated sequence, not
\* returned as the original string
C32_JsonTextFormattedAsItsValue ==
    (JsonText(fmt.response) /\ fmt.results # <<>>) =>
        /\ ~fmt.results[1].raised
        /\ fmt.results[1].val = _format_json_response(json_loads(fmt.response.s).val)
        /\ json_loads(fmt.response.s).val.t = "list" =>
                fmt.results[1].val # fmt.response.s

---------------------------------------------------------------------------
(* Properties of concurrent tool queries (checked under SpecThreads)       *)

\* the transcript of c holds nothing but the query of caller i and the
\* invocations and results of the tool-use ids the model gave that caller
OwnTranscript(c, i) ==
    \A k \in 1..Len(c.q.messages) :
        IF c.q.messages[k].type = "text"
        THEN c.q.messages[k].content = QueryOfCaller(i)
        ELSE c.q.messages[k].id = "tu" \o ToString(i)

\* C28: when two tool queries are in flight concurrently, each runs in its
\* own thread with its own event loop, client, session and transcript: every
\* tool call of a query is executed on the session that query opened, no
\* transcript contains a block of the other query, and each caller receives
\* the result of its own query
C28_ConcurrentQueriesShareNothing ==
    /\ \A i \in Callers :
            /\ threads.call[i].used \subseteq {i}
            /\ OwnTranscript(threads.call[i], i)
            /\ (threads.call[i].pc = "returned" /\ threads.call[i].client # 0)
                    => threads.call[i].result = threads.call[i].q.result
    /\ \A i, j \in Callers :
            (i # j /\ threads.call[i].loop # 0 /\ threads.call[j].loop # 0)
                => threads.call[i].loop # threads.call[j].loop
    /\ \A i, j \in Callers :
            (i # j /\ threads.call[i].client # 0 /\ threads.call[j].client # 0)
                => threads.call[i].client # threads.call[j].client

\* both workers are running, each past its connection and before its end
BothInFlight ==
    \A i \in Callers :
        /\ threads.call[i].worker = "running"
        /\ threads.call[i].q.pc \in {"first_request", "blocks", "next_request"}

\* C28 witness: the two queries are in flight together, each worker on its
\* own loop with its own client, and each has called its tool once, on the
\* session it opened itself
C28_Witness ==
    /\ BothInFlight
    /\ threads.session_of = [c \in Callers |-> c]
    /\ \A i \in Callers :
            /\ threads.call[i].used = {i}
            /\ ToolCalls(threads.call[i].q) = 1
            /\ Len(threads.call[i].q.messages) = 3
    /\ threads.call[1].loop # threads.call[2].loop

\* C29: _run_mcp_query_sync returns to its caller only after the worker has
\* finished (completed or failed); it returns the worker's result text, or
\* the fixed text "(x) MCP query failed" when the worker ended without
\* producing a result, and the worker's exception does not reach the caller
C29_ReturnsAfterWorkerEnded ==
    \A i \in Callers :
        threads.call[i].pc = "returned" =>
            /\ threads.call[i].worker \in {"finished", "died"}
            /\ threads.call[i].worker = "finished" =>
                    /\ threads.call[i].result_container # <<>>
                    /\ threads.call[i].result = threads.call[i].result_container[1]
                    /\ threads.call[i].q.pc = "done"
                            => threads.call[i].result = threads.call[i].q.result
            /\ threads.call[i].worker = "died" =>
                    /\ threads.call[i].result_container = <<>>
                    /\ threads.call[i].result = QueryFailed

\* C29 witness: the first caller got the fixed text after its worker ended
\* with nothing stored, the second the result of its worker's query, a
\* connection error
C29_Witness ==
    /\ threads.call[1].pc = "returned"
    /\ threads.call[1].worker = "died"
    /\ threads.call[1].result = QueryFailed
    /\ threads.call[2].pc = "returned"
    /\ threads.call[2].worker = "finished"
    /\ threads.call[2].result = ConnectFailed

---------------------------------------------------------------------------
(* Properties of the rendering of sequences (checked under SpecRender)     *)

\* the sequence that was formatted: its items, whether it is the value of a
\* mapping's key, and the lines it was rendered as (without the key's heading)
RenderedValue ==
    IF fmt.response.t = "str" THEN json_loads(fmt.response.s).val ELSE fmt.response

RenderedNested == RenderedValue.t = "dict"

RenderedItems ==
    IF RenderedNested THEN RenderedValue.items[1].v.items ELSE RenderedValue.items

RenderedLines ==
    LET lines == Split(fmt.results[1].val, "\n")
    IN  IF RenderedNested THEN Tail(lines) ELSE lines

\* does the line open an item?
OpensItem(line) ==
    IF RenderedNested
    THEN StartsWith(line, "  [") \/ StartsWith(line, "  * ")
    ELSE StartsWith(line, "(-) Item ") \/ StartsWith(line, "(=) Item ")

ItemLines == SelectSeq(RenderedLines, OpensItem)

\* does the line carry the number i?
Numbered(line, i) ==
    IF RenderedNested
    THEN line = "  [" \o ToString(i) \o "]"
    ELSE \/ StartsWith(line, "(-) Item " \o ToString(i) \o ": ")
         \/ line = "(=) Item " \o ToString(i) \o ":"

IsNote(line) == StartsWith(LStrip(line), "... and ")

\* with N items and the cap: min(N, cap) items are opened, and the note with
\* K = N - cap is the last line exactly when N > cap
CappedAt(cap) ==
    /\ Len(ItemLines) = (IF Len(RenderedItems) < cap THEN Len(RenderedItems) ELSE cap)
    /\ IF Len(RenderedItems) > cap
       THEN /\ LStrip(RenderedLines[Len(RenderedLines)])
                    = "... and " \o ToString(Len(RenderedItems) - cap) \o " more items"
            /\ \A i \in 1..(Len(RenderedLines) - 1) : ~IsNote(RenderedLines[i])
       ELSE \A i \in 1..Len(RenderedLines) : ~IsNote(RenderedLines[i])

\* C31 as stated: when formatting a sequence of N items, exactly min(N, cap)
\* items are rendered, numbered from 1, and the note "... and K more items"
\* with K = N - cap is appended exactly when N > cap, where cap is 5 for a
\* sequence that is a mapping's value and 10 for a top-level sequence
C31_ItemsCappedAndNumbered ==
    fmt.results # <<>> =>
        /\ CappedAt(IF RenderedNested THEN 5 ELSE 10)
        /\ \A i \in 1..Len(ItemLines) : Numbered(ItemLines[i], i)

\* C31 amended: exactly min(N, cap) items are rendered, in order; an item of
\* a top-level sequence and a mapping item of a nested sequence carry their
\* place counted from 1, an item of a nested sequence that is not a mapping is
\* a bullet line without a number; the note "... and K more items" with
\* K = N - cap is appended exactly when N > cap (cap 5 nested, 10 top-level)
C31_ItemsCappedNumberedUnlessNestedScalar ==
    fmt.results # <<>> =>
        /\ CappedAt(IF RenderedNested THEN 5 ELSE 10)
        /\ \A i \in 1..Len(ItemLines) :
                IF RenderedNested /\ RenderedItems[i].t # "dict"
                THEN ItemLines[i] = "  * " \o str(RenderedItems[i])
                ELSE Numbered(ItemLines[i], i)

\* C31 witness: a top-level sequence of twelve items, mappings and numbers in
\* turn, was rendered as ten items and the note for the two left out
C31_Witness ==
    /\ fmt.response = PyList(ItemsOf("mixed", 12))
    /\ fmt.results # <<>>
    /\ Len(ItemLines) = 10
    /\ ItemLines[1] = "(=) Item 1:"
    /\ ItemLines[10] = "(-) Item 10: 50"
    /\ RenderedLines[Len(RenderedLines)] = "... and 2 more items"

---------------------------------------------------------------------------
(* Properties of the mock tool registry (checked under SpecRegistry)       *)

\* is a document of that qualified name in the collection?
Registered(name) ==
    \E i \in 1..Len(registry.collection) : registry.collection[i].qualified_name = name

OneEntryPerName ==
    \A i, j \in 1..Len(registry.collection) :
        registry.collection[i].qualified_name = registry.collection[j].qualified_name
            => i = j

\* the answer to a GET /mcp_servers/<name>: 404 exactly when the name is not
\* registered, else 200 with the server_url registered last
AnsweredFromCollection ==
    /\ registry.response.status = 404 <=> ~Registered(registry.request.name)
    /\ registry.response.status # 404 =>
            /\ registry.response.status = 200
            /\ registry.response.server_url = registry.latest[registry.request.name]
            /\ registry.response.server_url # None

\* C33 as stated: in the mock tool registry, after any sequence of register
\* (POST) and delete requests, GET /mcp_servers/<name> answers 404 exactly
\* when no entry with that qualified name is currently registered, and
\* otherwise answers 200 with the server_url of the most recent registration
\* of that name; there is never more than one entry per qualified name
C33_GetAnswers404Or200 ==
    /\ OneEntryPerName
    /\ registry.request.op = "get" => AnsweredFromCollection

\* C33 amended: the same, for a GET whose call to the store does not raise;
\* when the store raises, the answer is 500
C33_GetAnswers404Or200UnlessStoreFails ==
    /\ OneEntryPerName
    /\ (registry.request.op = "get" /\ registry.request.db = "ok")
            => AnsweredFromCollection
    /\ (registry.request.op = "get" /\ registry.request.db = "raise")
            => registry.response.status = 500

\* C33 witness: the name registered at start-up under one URL has been
\* registered again under another, and a GET answers 200 with the later URL
\* from the single entry of that name
C33_Witness ==
    /\ registry.request = [op |-> "get", name |-> "nanda-points", db |-> "ok"]
    /\ registry.response.status = 200
    /\ registry.response.server_url = "https://w/mcp"
    /\ Len(registry.collection) = 2
    /\ Registered("weather")

---------------------------------------------------------------------------
(* Properties of two bridges that reach each other (checked under SpecPair) *)

\* the user's message to alice is "@bob <text>"
AddressedToBob == StartsWith(net.text, "@bob ")

\* how many agent-logic calls the agent has made
InvokedAt(agent) == Cardinality({i \in 1..Len(net.invoked) : net.invoked[i].agent = agent})

\* no envelope but alice's to bob, no agent-logic call at alice and at most
\* one at bob, and no call nested deeper than bob's in alice's
NoPingPong ==
    /\ Len(net.delivered) <= 1
    /\ \A i \in 1..Len(net.delivered) :
            net.delivered[i].from = "alice" /\ net.delivered[i].to = "bob"
    /\ Len(net.calls) <= 2
    /\ InvokedAt("bob") <= 1
    /\ InvokedAt("alice") = 0

\* the exchange has ended with alice's reply to the user
EndedWithReply ==
    /\ Len(net.replies) = 1
    /\ ~net.replies[1].raised
    /\ net.replies[1].route = "outbound"
    /\ StartsWith(net.replies[1].reply.text, "[alice] ")

\* C34 as stated: in a system of two agents A and B, one user message
\* "@B <text>" at A causes exactly one envelope delivery from A to B, at most
\* one agent-logic invocation at B and none at A, and the exchange ends with
\* A's reply to the user: B's response never triggers a further envelope from
\* A, so no unbounded ping-pong between the agents is reachable
C34_OneEnvelopeOneReply ==
    AddressedToBob =>
        /\ NoPingPong
        /\ net.stage = "done" => (Len(net.delivered) = 1 /\ EndedWithReply)

\* C34 amended: the same with at most one envelope delivery from A to B, and
\* exactly one when A's lookup of B yields B's address and the link to B
\* carries the envelope
C34_AtMostOneEnvelopeOneReply ==
    AddressedToBob =>
        /\ NoPingPong
        /\ net.stage = "done" =>
                /\ EndedWithReply
                /\ Len(net.delivered) = 1
                        <=> (net.lookup \in {"200", "200/a2a"} /\ net.reach # "down")

\* C34 witness: alice was told "@bob hello"; bob received her envelope, ran
\* his agent logic once on "hello", and his answer reached the user through
\* alice
C34_Witness ==
    /\ net.stage = "done"
    /\ net.text = "@bob hello"
    /\ net.delivered = <<[from |-> "alice", to |-> "bob",
                          text |-> "FROM: alice\nTO: bob\nMESSAGE: hello"]>>
    /\ net.invoked = <<[agent |-> "bob", text |-> "hello"]>>
    /\ net.replies[1].reply.text = "[alice] [bob] [bob] Response to alice: fine"

\* C35 as stated: envelope round trip: for every sender id, target id and
\* message body, parsing the envelope text built by _send_to_agent with the
\* inbound parser of _handle_incoming_agent_message yields the same sender,
\* target and body, including bodies that span several lines or contain a
\* line starting with FROM:, TO: or MESSAGE:
C35_EnvelopeRoundTrip ==
    \A i \in 1..Len(net.delivered) :
        ParseEnvelope(net.delivered[i].text)
            = [from_agent |-> "alice", to_agent |-> "bob",
               message_content |-> SliceFrom(net.text, Len("@bob "))]

====
